---- MODULE Spec2Model ----
(***************************************************************************)
(* OpenMCRunner (benchmarks/openmc_runner.py): one runner instance, its    *)
(* run_model calls, the child processes they start, the working            *)
(* directories they use and the records they return.                       *)
(*                                                                         *)
(* Python values are modelled as follows.                                  *)
(*   Optional[T]   <<>> for None, <<v>> for a value v                      *)
(*   str           a TLA+ string, read character by character              *)
(*   list / tuple  a sequence                                              *)
(*   dict          a function whose DOMAIN is the set of keys              *)
(***************************************************************************)
EXTENDS Integers, Sequences, FiniteSets, TLC

\* ---------------------------------------------------------------- bounds

\* Largest thread count a call requests.
MaxThreads == 2
\* Largest MPI rank count a call requests.
MaxProcs == 2
\* Largest exit code of the profiled command.
MaxExit == 1

\* ------------------------------------------------------- Python values

None == <<>>
Some(v) == <<v>>
IsNone(o) == o = <<>>
Val(o) == o[1]

\* Truth value of an Optional[str], an Optional[int] and an Optional[list].
TruthyStr(o) == o # None /\ Val(o) # ""
TruthyInt(o) == o # None /\ Val(o) # 0
TruthySeq(o) == o # None /\ Val(o) # <<>>

\* a or b, for Optional[str] operands.
OrStr(a, b) == IF TruthyStr(a) THEN a ELSE b

\* dict.get(key): None when the key is missing.
Get(d, k) == IF k \in DOMAIN d THEN Some(d[k]) ELSE None

\* dict with d[k] = v set (a new key is added, an old one overwritten).
Put(d, k, v) == [x \in DOMAIN d \cup {k} |-> IF x = k THEN v ELSE d[x]]

\* dict.update(e): the keys of e win.
Update(d, e) == [x \in DOMAIN d \cup DOMAIN e |-> IF x \in DOMAIN e THEN e[x] ELSE d[x]]

EmptyDict == <<>>

\* ------------------------------------------------------------- strings

Whitespace == {" ", "\t", "\n", "\r", "\f"}

RECURSIVE LStrip(_)
LStrip(s) == IF s # "" /\ Head(s) \in Whitespace THEN LStrip(Tail(s)) ELSE s

RECURSIVE RStrip(_)
RStrip(s) ==
    IF s # "" /\ SubSeq(s, Len(s), Len(s)) \in Whitespace
    THEN RStrip(SubSeq(s, 1, Len(s) - 1))
    ELSE s

\* str.strip()
Strip(s) == RStrip(LStrip(s))

Upper == "ABCDEFGHIJKLMNOPQRSTUVWXYZ"
LowerLetters == "abcdefghijklmnopqrstuvwxyz"

LowerChar(c) ==
    LET hits == {i \in 1..Len(Upper) : SubSeq(Upper, i, i) = c}
    IN IF hits = {} THEN c
       ELSE LET i == CHOOSE j \in hits : TRUE IN SubSeq(LowerLetters, i, i)

\* str.lower()
RECURSIVE Lower(_)
Lower(s) == IF s = "" THEN "" ELSE LowerChar(Head(s)) \o Lower(Tail(s))

\* str.startswith(prefix)
StartsWith(s, p) == Len(s) >= Len(p) /\ SubSeq(s, 1, Len(p)) = p

\* Index of the first occurrence of p in s, 0 when there is none (str.find + 1).
Find(s, p) ==
    LET at == {i \in 1..(Len(s) - Len(p) + 1) : SubSeq(s, i, i + Len(p) - 1) = p}
    IN IF at = {} THEN 0 ELSE CHOOSE i \in at : \A j \in at : i <= j

Contains(s, p) == Find(s, p) # 0

\* The text before and after the first occurrence of p (which must occur).
Before(s, p) == SubSeq(s, 1, Find(s, p) - 1)
After(s, p) == SubSeq(s, Find(s, p) + Len(p), Len(s))

\* Index of the first line end of s, 0 when there is none.
LineEndAt(s) ==
    LET at == {i \in 1..Len(s) : SubSeq(s, i, i) \in {"\n", "\r"}}
    IN IF at = {} THEN 0 ELSE CHOOSE i \in at : \A j \in at : i <= j

\* str.splitlines(), for the line ends \n, \r and \r\n.
RECURSIVE SplitLines(_)
SplitLines(s) ==
    IF s = "" THEN <<>>
    ELSE IF LineEndAt(s) = 0 THEN <<s>>
    ELSE LET i == LineEndAt(s)
             rest == SubSeq(s, i, Len(s))
             n == IF StartsWith(rest, "\r\n") THEN 2 ELSE 1
         IN <<SubSeq(s, 1, i - 1)>> \o SplitLines(SubSeq(rest, n + 1, Len(rest)))

\* str(n) of an int.
Str(n) == ToString(n)

\* part.format(procs=n): every {procs} field is replaced by str(n), {{ and }}
\* stand for a brace, and any other field or a single brace raises
\* (KeyError, IndexError or ValueError), which is the result FormatRaises.
FormatRaises == <<"raise">>

RECURSIVE FormatFrom(_, _, _)
FormatFrom(s, n, acc) ==
    IF s = "" THEN Some(acc)
    ELSE IF StartsWith(s, "{{") THEN FormatFrom(SubSeq(s, 3, Len(s)), n, acc \o "{")
    ELSE IF StartsWith(s, "}}") THEN FormatFrom(SubSeq(s, 3, Len(s)), n, acc \o "}")
    ELSE IF StartsWith(s, "{procs}") THEN FormatFrom(SubSeq(s, 8, Len(s)), n, acc \o Str(n))
    ELSE IF Head(s) \in {"{", "}"} THEN FormatRaises
    ELSE FormatFrom(Tail(s), n, acc \o Head(s))

Format(s, n) == FormatFrom(s, n, "")

\* str.rstrip(chars), for a one-character set.
RECURSIVE RStripChar(_, _)
RStripChar(s, c) ==
    IF s # "" /\ SubSeq(s, Len(s), Len(s)) = c
    THEN RStripChar(SubSeq(s, 1, Len(s) - 1), c)
    ELSE s

\* str.split(sep): the pieces between every occurrence of sep.
RECURSIVE Split(_, _)
Split(s, sep) ==
    IF ~Contains(s, sep) THEN <<s>>
    ELSE <<Before(s, sep)>> \o Split(After(s, sep), sep)

\* ------------------------------------------------------------- numbers

DecimalDigits == "0123456789"
IsDigit(c) == Contains(DecimalDigits, c)
DigitValue(c) == Find(DecimalDigits, c) - 1

\* A run of digits as int() and float() take it: digits, with single
\* underscores allowed between them.
RECURSIVE IsDigitTail(_)
IsDigitTail(s) ==
    IF s = "" THEN TRUE
    ELSE IF IsDigit(Head(s)) THEN IsDigitTail(Tail(s))
    ELSE Head(s) = "_" /\ Len(s) > 1 /\ IsDigit(SubSeq(s, 2, 2)) /\ IsDigitTail(Tail(s))

IsDigitPart(s) == s # "" /\ IsDigit(Head(s)) /\ IsDigitTail(Tail(s))

\* The natural number a run of digits stands for, `acc` being the value of
\* the digits already read.
RECURSIVE DigitsValue(_, _)
DigitsValue(s, acc) ==
    IF s = "" THEN acc
    ELSE IF Head(s) = "_" THEN DigitsValue(Tail(s), acc)
    ELSE DigitsValue(Tail(s), 10 * acc + DigitValue(Head(s)))

\* The number of digits in a run of digits.
RECURSIVE DigitCount(_)
DigitCount(s) ==
    IF s = "" THEN 0
    ELSE (IF Head(s) = "_" THEN 0 ELSE 1) + DigitCount(Tail(s))

HasSign(s) == s # "" /\ Head(s) \in {"+", "-"}
Unsigned(s) == IF HasSign(s) THEN Tail(s) ELSE s
SignOf(s) == IF s # "" /\ Head(s) = "-" THEN -1 ELSE 1

\* int(s): the integer, or None where int raises ValueError.
ParseInt(s) ==
    LET t == Strip(s)
    IN IF IsDigitPart(Unsigned(t)) THEN Some(SignOf(t) * DigitsValue(Unsigned(t), 0))
       ELSE None

\* A float: a decimal m * 10^e with m free of trailing zeros, or an
\* infinity, or nan. Binary rounding is left out: the numbers read here are
\* short decimals.
RECURSIVE Float(_, _)
Float(m, e) ==
    IF m = 0 THEN [kind |-> "num", m |-> 0, e |-> 0]
    ELSE IF m % 10 = 0 THEN Float(m \div 10, e + 1)
    ELSE [kind |-> "num", m |-> m, e |-> e]
Infinity(sign) == [kind |-> "inf", m |-> sign, e |-> 0]
NaN == [kind |-> "nan", m |-> 0, e |-> 0]

RECURSIVE Pow10(_)
Pow10(n) == IF n = 0 THEN 1 ELSE 10 * Pow10(n - 1)

\* float(n) of an int.
FloatOfInt(n) == Float(n, 0)

\* x + y for floats.
FloatAdd(x, y) ==
    IF x.kind = "nan" \/ y.kind = "nan" THEN NaN
    ELSE IF x.kind = "inf" /\ y.kind = "inf" THEN (IF x.m = y.m THEN x ELSE NaN)
    ELSE IF x.kind = "inf" THEN x
    ELSE IF y.kind = "inf" THEN y
    ELSE LET e == IF x.e < y.e THEN x.e ELSE y.e
         IN Float(x.m * Pow10(x.e - e) + y.m * Pow10(y.e - e), e)

\* The first e or E of a string, 0 when there is none.
ExponentAt(s) ==
    LET at == {i \in 1..Len(s) : SubSeq(s, i, i) \in {"e", "E"}}
    IN IF at = {} THEN 0 ELSE CHOOSE i \in at : \A j \in at : i <= j

\* float(s): the float, or None where float raises ValueError.
ParseFloat(s) ==
    LET t == Strip(s)
        body == Unsigned(t)
        sign == SignOf(t)
        x == ExponentAt(body)
        mant == IF x = 0 THEN body ELSE SubSeq(body, 1, x - 1)
        expo == IF x = 0 THEN "" ELSE SubSeq(body, x + 1, Len(body))
        whole == IF Contains(mant, ".") THEN Before(mant, ".") ELSE mant
        frac == IF Contains(mant, ".") THEN After(mant, ".") ELSE ""
        mantOk == /\ whole = "" \/ IsDigitPart(whole)
                  /\ frac = "" \/ IsDigitPart(frac)
                  /\ whole # "" \/ frac # ""
        expoOk == x = 0 \/ IsDigitPart(Unsigned(expo))
        ev == IF x = 0 THEN 0 ELSE SignOf(expo) * DigitsValue(Unsigned(expo), 0)
        mv == DigitsValue(whole, 0) * Pow10(DigitCount(frac)) + DigitsValue(frac, 0)
    IN IF Lower(body) \in {"inf", "infinity"} THEN Some(Infinity(sign))
       ELSE IF Lower(body) = "nan" THEN Some(NaN)
       ELSE IF mantOk /\ expoOk
       THEN (IF mv = 0 THEN Some(Float(0, 0))
             ELSE IF ev - DigitCount(frac) >= 0
             THEN Some(Float(sign * mv * Pow10(ev - DigitCount(frac)), 0))
             ELSE Some(Float(sign * mv, ev - DigitCount(frac))))
       ELSE None

\* ------------------------------------------------------ results, errors

\* What a function hands back: a value, or the exception it raises.
Ok(v) == [exc |-> "", value |-> Some(v)]
Raise(e) == [exc |-> e, value |-> None]
Raised(r) == r.exc # ""

\* ------------------------------------------------------- OpenMCBuildInfo

OpenMCBuildInfo(version, commit_hash, raw) ==
    [version |-> version, commit_hash |-> commit_hash, raw |-> raw]

\* One line of _parse_openmc_version_output's loop, on the dict so far.
ParseVersionLine(info, line) ==
    LET stripped == Strip(line)
    IN IF stripped = "" THEN info
       ELSE IF StartsWith(stripped, "OpenMC version")
       THEN Put(info, "OpenMC version", Strip(After(stripped, "OpenMC version")))
       ELSE IF Contains(stripped, ":")
       THEN Put(info, Strip(Before(stripped, ":")), Strip(After(stripped, ":")))
       ELSE info

RECURSIVE ParseVersionLines(_, _)
ParseVersionLines(info, lines) ==
    IF lines = <<>> THEN info
    ELSE ParseVersionLines(ParseVersionLine(info, Head(lines)), Tail(lines))

_parse_openmc_version_output(lines) == ParseVersionLines(EmptyDict, lines)

\* The child process `openmc_exec -v` as the probe sees it: it could not be
\* started (OSError), or it ran and left an exit code and its stdout.
ProbeRun(started, returncode, stdout) ==
    [started |-> started, returncode |-> returncode, stdout |-> stdout, stderr |-> "",
     report |-> None]

\* _fetch_build_info run with check=False: the exit code is not looked at.
_fetch_build_info_ignores_exit(probe) ==
    IF ~probe.started THEN None
    ELSE LET lines == SplitLines(probe.stdout)
         IN IF lines = <<>> THEN None
            ELSE LET raw == _parse_openmc_version_output(lines)
                 IN Some(OpenMCBuildInfo(Get(raw, "OpenMC version"),
                                         Get(raw, "Commit hash"), raw))

_fetch_build_info(probe) ==
    IF ~probe.started \/ probe.returncode # 0 THEN None
    ELSE LET lines == SplitLines(probe.stdout)
         IN IF lines = <<>> THEN None
            ELSE LET raw == _parse_openmc_version_output(lines)
                 IN Some(OpenMCBuildInfo(Get(raw, "OpenMC version"),
                                         Get(raw, "Commit hash"), raw))

\* A cache that answers for every executable path.
CacheHit_any_path(self, cached, openmc_exec) == cached # None

\* A cache that is never consulted.
CacheHit_never(self, cached, openmc_exec) == FALSE

\* Whether _get_build_info answers from the cache, without a probe.
CacheHit(self, cached, openmc_exec) ==
    cached # None /\ openmc_exec = self.openmc_exec

\* _get_build_info storing what it fetched whatever the path.
_get_build_info_caches_any_path(self, cached, openmc_exec, probe) ==
    IF CacheHit(self, cached, openmc_exec)
    THEN [info |-> cached, cache |-> cached]
    ELSE [info |-> _fetch_build_info(probe), cache |-> _fetch_build_info(probe)]

\* _get_build_info that keeps nothing of what it fetched.
_get_build_info_never_caches(self, cached, openmc_exec, probe) ==
    IF CacheHit(self, cached, openmc_exec)
    THEN [info |-> cached, cache |-> cached]
    ELSE [info |-> _fetch_build_info(probe), cache |-> cached]

\* _get_build_info: the build info returned and the cache afterwards.
_get_build_info(self, cached, openmc_exec, probe) ==
    IF CacheHit(self, cached, openmc_exec)
    THEN [info |-> cached, cache |-> cached]
    ELSE LET info == _fetch_build_info(probe)
         IN [info |-> info,
             cache |-> IF openmc_exec = self.openmc_exec THEN info ELSE cached]

\* ---------------------------------------------------------- MPI selection

\* _build_supports_mpi taking a build info without the key for a build without MPI.
_build_supports_mpi_key_required(build_info) ==
    IF build_info = None THEN TRUE
    ELSE LET raw == Val(build_info).raw
             raw_value == OrStr(Get(raw, "MPI enabled"), Get(raw, "MPI Enabled"))
         IN IF raw_value = None THEN FALSE
            ELSE Lower(Strip(Val(raw_value))) \in {"yes", "true", "1"}

\* _build_supports_mpi taking a failed probe for a build without MPI.
_build_supports_mpi_pessimistic(build_info) ==
    IF build_info = None THEN FALSE
    ELSE LET raw == Val(build_info).raw
             raw_value == OrStr(Get(raw, "MPI enabled"), Get(raw, "MPI Enabled"))
         IN IF raw_value = None THEN TRUE
            ELSE Lower(Strip(Val(raw_value))) \in {"yes", "true", "1"}

_build_supports_mpi(build_info) ==
    IF build_info = None THEN TRUE
    ELSE LET raw == Val(build_info).raw
             raw_value == OrStr(Get(raw, "MPI enabled"), Get(raw, "MPI Enabled"))
         IN IF raw_value = None THEN TRUE
            ELSE Lower(Strip(Val(raw_value))) \in {"yes", "true", "1"}

\* _select_mpi_procs without the capability check.
_select_mpi_procs_unchecked(requested, build_info) ==
    IF ~TruthyInt(requested) \/ Val(requested) <= 1 THEN None
    ELSE requested

_select_mpi_procs(requested, build_info) ==
    IF ~TruthyInt(requested) \/ Val(requested) <= 1 THEN None
    ELSE IF ~_build_supports_mpi(build_info) THEN None
    ELSE requested

\* ------------------------------------------------------- command, launcher

RECURSIVE FormatAll(_, _)
FormatAll(parts, n) ==
    IF parts = <<>> THEN Ok(<<>>)
    ELSE LET first == Format(Head(parts), n)
             rest == FormatAll(Tail(parts), n)
         IN IF first = FormatRaises THEN Raise("KeyError")
            ELSE IF Raised(rest) THEN rest
            ELSE Ok(<<Val(first)>> \o Val(rest.value))

\* _resolve_mpi_launcher using an override whatever the rank count is.
_resolve_mpi_launcher_override_first(self, mpi_procs, mpi_command) ==
    IF TruthySeq(mpi_command)
    THEN FormatAll(Val(mpi_command), IF mpi_procs = None THEN 1 ELSE Val(mpi_procs))
    ELSE IF ~TruthyInt(mpi_procs) \/ Val(mpi_procs) <= 1 THEN Ok(<<>>)
    ELSE IF TruthySeq(self.default_mpi_runner)
    THEN Ok(Val(self.default_mpi_runner) \o <<"-np", Str(Val(mpi_procs))>>)
    ELSE Raise("ValueError")

\* _resolve_mpi_launcher preferring the runner's default launcher to an override.
_resolve_mpi_launcher_default_first(self, mpi_procs, mpi_command) ==
    IF ~TruthyInt(mpi_procs) \/ Val(mpi_procs) <= 1 THEN Ok(<<>>)
    ELSE IF TruthySeq(self.default_mpi_runner)
    THEN Ok(Val(self.default_mpi_runner) \o <<"-np", Str(Val(mpi_procs))>>)
    ELSE IF TruthySeq(mpi_command) THEN FormatAll(Val(mpi_command), Val(mpi_procs))
    ELSE Raise("ValueError")

\* _resolve_mpi_launcher running serially when no launcher is available.
_resolve_mpi_launcher_serial_fallback(self, mpi_procs, mpi_command) ==
    IF ~TruthyInt(mpi_procs) \/ Val(mpi_procs) <= 1 THEN Ok(<<>>)
    ELSE IF TruthySeq(mpi_command) THEN FormatAll(Val(mpi_command), Val(mpi_procs))
    ELSE IF TruthySeq(self.default_mpi_runner)
    THEN Ok(Val(self.default_mpi_runner) \o <<"-np", Str(Val(mpi_procs))>>)
    ELSE Ok(<<>>)

_resolve_mpi_launcher(self, mpi_procs, mpi_command) ==
    IF ~TruthyInt(mpi_procs) \/ Val(mpi_procs) <= 1 THEN Ok(<<>>)
    ELSE IF TruthySeq(mpi_command) THEN FormatAll(Val(mpi_command), Val(mpi_procs))
    ELSE IF TruthySeq(self.default_mpi_runner)
    THEN Ok(Val(self.default_mpi_runner) \o <<"-np", Str(Val(mpi_procs))>>)
    ELSE Raise("ValueError")

\* _build_command with the launcher wrapping the profiler.
_build_command_launcher_outside(self, openmc_exec, openmc_args, mpi_procs, mpi_command, time_exec, time_output) ==
    LET launcher == _resolve_mpi_launcher(self, mpi_procs, mpi_command)
    IN IF Raised(launcher) THEN launcher
       ELSE Ok(Val(launcher.value) \o <<time_exec, "-v", "-o", time_output, openmc_exec>>
               \o (IF TruthySeq(openmc_args) THEN Val(openmc_args) ELSE <<>>))

_build_command(self, openmc_exec, openmc_args, mpi_procs, mpi_command, time_exec, time_output) ==
    LET launcher == _resolve_mpi_launcher(self, mpi_procs, mpi_command)
    IN IF Raised(launcher) THEN launcher
       ELSE LET base_cmd == Val(launcher.value) \o <<openmc_exec>>
                            \o (IF TruthySeq(openmc_args) THEN Val(openmc_args) ELSE <<>>)
            IN Ok(<<time_exec, "-v", "-o", time_output>> \o base_cmd)

\* ------------------------------------------------------------ environment

\* _build_environment applying the overrides before the thread counts.
_build_environment_threads_last(parent_env, threads, extra_env) ==
    LET overridden == IF extra_env # None /\ DOMAIN Val(extra_env) # {}
                      THEN Update(parent_env, Val(extra_env))
                      ELSE parent_env
    IN IF threads # None
       THEN Put(Put(overridden, "OMP_NUM_THREADS", Str(Val(threads))),
                "OPENMC_THREADS", Str(Val(threads)))
       ELSE overridden

\* _build_environment letting the parent's values win over extra_env.
_build_environment_parent_wins(parent_env, threads, extra_env) ==
    LET threaded == IF threads # None
                    THEN Put(Put(parent_env, "OMP_NUM_THREADS", Str(Val(threads))),
                             "OPENMC_THREADS", Str(Val(threads)))
                    ELSE parent_env
    IN IF extra_env # None /\ DOMAIN Val(extra_env) # {}
       THEN Update(Val(extra_env), threaded)
       ELSE threaded

\* parent_env after _build_environment: env is a copy (dict(parent_env), line
\* 284), so what lines 286-289 write to env does not reach it.
ParentAfter_build_environment(parent_env, threads, extra_env) == parent_env

_build_environment(parent_env, threads, extra_env) ==
    LET copy == parent_env
        threaded == IF threads # None
                    THEN Put(Put(copy, "OMP_NUM_THREADS", Str(Val(threads))),
                             "OPENMC_THREADS", Str(Val(threads)))
                    ELSE copy
    IN IF extra_env # None /\ DOMAIN Val(extra_env) # {}
       THEN Update(threaded, Val(extra_env))
       ELSE threaded

\* ------------------------------------------------------ the time report

\* _parse_float, _parse_int: None for None, "" and a value that does not parse.
_parse_float(value) == IF ~TruthyStr(value) THEN None ELSE ParseFloat(Val(value))
_parse_int(value) == IF ~TruthyStr(value) THEN None ELSE ParseInt(Val(value))

\* _parse_percent: the value without its trailing % signs, as a float.
_parse_percent(value) ==
    IF ~TruthyStr(value) THEN None ELSE _parse_float(Some(RStripChar(Val(value), "%")))

\* _parse_elapsed that takes the first of three parts for minutes too.
_parse_elapsed_hours_as_minutes(value) ==
    IF ~TruthyStr(value) THEN None
    ELSE LET parts == Split(Val(value), ":")
             n == Len(parts)
             seconds == IF n \in {2, 3} THEN ParseFloat(parts[n]) ELSE None
             minutes == IF n \in {2, 3} THEN ParseInt(parts[n - 1]) ELSE None
             hours == IF n = 3 THEN ParseInt(parts[1]) ELSE Some(0)
         IN IF n \notin {2, 3} \/ seconds = None \/ minutes = None \/ hours = None THEN None
            ELSE Some(FloatAdd(FloatOfInt(Val(hours) * 60 + Val(minutes) * 60), Val(seconds)))

\* _parse_elapsed: m:s and h:m:s as seconds; None for None, "", any other
\* number of parts, and a part that does not parse (ValueError).
_parse_elapsed(value) ==
    IF ~TruthyStr(value) THEN None
    ELSE LET parts == Split(Val(value), ":")
             n == Len(parts)
             seconds == IF n \in {2, 3} THEN ParseFloat(parts[n]) ELSE None
             minutes == IF n \in {2, 3} THEN ParseInt(parts[n - 1]) ELSE None
             hours == IF n = 3 THEN ParseInt(parts[1]) ELSE Some(0)
         IN IF n \notin {2, 3} \/ seconds = None \/ minutes = None \/ hours = None THEN None
            ELSE Some(FloatAdd(FloatOfInt(Val(hours) * 3600 + Val(minutes) * 60), Val(seconds)))

\* A dict in insertion order: a sequence of keys with their values.
Item(k, v) == [key |-> k, value |-> v]
HasKey(d, k) == \E i \in DOMAIN d : d[i].key = k

\* d[k] = v: a key that is there keeps its place, a new one goes last.
SetItem(d, k, v) ==
    IF HasKey(d, k) THEN [i \in DOMAIN d |-> IF d[i].key = k THEN Item(k, v) ELSE d[i]]
    ELSE Append(d, Item(k, v))

\* _lookup_stat: the value of the first key, in insertion order, that starts
\* with key_prefix.
_lookup_stat(values, key_prefix) ==
    LET hits == {i \in DOMAIN values : StartsWith(values[i].key, key_prefix)}
    IN IF hits = {} THEN None
       ELSE Some(values[CHOOSE i \in hits : \A j \in hits : i <= j].value)

TimeUsage(elapsed_seconds, user_seconds, system_seconds, max_rss_kb, cpu_percent, raw) ==
    [elapsed_seconds |-> elapsed_seconds, user_seconds |-> user_seconds,
     system_seconds |-> system_seconds, max_rss_kb |-> max_rss_kb,
     cpu_percent |-> cpu_percent, raw |-> raw]

\* One line of the report, on the dict so far (lines 335-339).
ParseReportLine(raw, line) ==
    IF ~Contains(line, ": ") THEN raw
    ELSE SetItem(raw, Strip(Before(line, ": ")), Strip(After(line, ": ")))

RECURSIVE ParseReportLines(_, _)
ParseReportLines(raw, lines) ==
    IF lines = <<>> THEN raw
    ELSE ParseReportLines(ParseReportLine(raw, Head(lines)), Tail(lines))

\* The report read whole or not at all: one bad metric voids the others.
ParseTimeReport_all_or_nothing(text) ==
    LET raw == ParseReportLines(<<>>, SplitLines(text))
        elapsed == _parse_elapsed(_lookup_stat(raw, "Elapsed (wall clock) time"))
        user == _parse_float(_lookup_stat(raw, "User time (seconds)"))
        system == _parse_float(_lookup_stat(raw, "System time (seconds)"))
        rss == _parse_int(_lookup_stat(raw, "Maximum resident set size"))
        cpu == _parse_percent(_lookup_stat(raw, "Percent of CPU this job got"))
    IN IF None \in {elapsed, user, system, rss, cpu}
       THEN TimeUsage(None, None, None, None, None, raw)
       ELSE TimeUsage(elapsed, user, system, rss, cpu, raw)

\* _parse_time_output on a report that exists, `text` being what the file
\* holds: it is read line by line and the five metrics looked up (lines 332-348).
ParseTimeReport(text) ==
    LET raw == ParseReportLines(<<>>, SplitLines(text))
    IN TimeUsage(_parse_elapsed(_lookup_stat(raw, "Elapsed (wall clock) time")),
                 _parse_float(_lookup_stat(raw, "User time (seconds)")),
                 _parse_float(_lookup_stat(raw, "System time (seconds)")),
                 _parse_int(_lookup_stat(raw, "Maximum resident set size")),
                 _parse_percent(_lookup_stat(raw, "Percent of CPU this job got")),
                 raw)

\* ------------------------------------------------------ the timing lines

\* _TIMING_REGEX: each pattern is ^text\s*=\s*([0-9.eE+-]+)\s*unit$
TimingPattern(text, unit) == [text |-> text, unit |-> unit]
TimingKeys ==
    <<"initialization", "transport", "total_elapsed", "calc_rate_inactive", "calc_rate_active">>
_TIMING_REGEX ==
    [initialization |-> TimingPattern("Total time for initialization", "seconds"),
     transport |-> TimingPattern("Time in transport only", "seconds"),
     total_elapsed |-> TimingPattern("Total time elapsed", "seconds"),
     calc_rate_inactive |-> TimingPattern("Calculation Rate (inactive)", "particles/second"),
     calc_rate_active |-> TimingPattern("Calculation Rate (active)", "particles/second")]

NumberClass == "0123456789.eE+-"

\* The longest prefix of s made of characters of [0-9.eE+-].
RECURSIVE NumberPrefix(_)
NumberPrefix(s) ==
    IF s # "" /\ Contains(NumberClass, Head(s)) THEN Head(s) \o NumberPrefix(Tail(s))
    ELSE ""

\* pattern.match(line): group 1, or None when the line does not match. The
\* number is the longest run of its class: what follows it, white space or
\* the unit, begins with no character of the class.
Match(pattern, line) ==
    IF ~StartsWith(line, pattern.text) THEN None
    ELSE LET afterText == LStrip(SubSeq(line, Len(pattern.text) + 1, Len(line)))
         IN IF ~StartsWith(afterText, "=") THEN None
            ELSE LET afterEq == LStrip(Tail(afterText))
                     number == NumberPrefix(afterEq)
                     rest == LStrip(SubSeq(afterEq, Len(number) + 1, Len(afterEq)))
                 IN IF number # "" /\ rest = pattern.unit THEN Some(number) ELSE None

\* The patterns tried on one stripped line, in the order of the dict; a
\* number float() rejects is skipped (lines 368-374).
RECURSIVE MatchPatterns(_, _, _)
MatchPatterns(values, stripped, keys) ==
    IF keys = <<>> THEN values
    ELSE LET m == Match(_TIMING_REGEX[Head(keys)], stripped)
             v == IF m = None THEN None ELSE ParseFloat(Val(m))
         IN MatchPatterns(IF v = None THEN values ELSE Put(values, Head(keys), Val(v)),
                          stripped, Tail(keys))

RECURSIVE ParseTimingLines(_, _)
ParseTimingLines(values, lines) ==
    IF lines = <<>> THEN values
    ELSE LET stripped == Strip(Head(lines))
         IN ParseTimingLines(IF stripped = "" THEN values
                             ELSE MatchPatterns(values, stripped, TimingKeys),
                             Tail(lines))

RECURSIVE ParseTimingStreams(_, _)
ParseTimingStreams(values, streams) ==
    IF streams = <<>> THEN values
    ELSE ParseTimingStreams(IF Head(streams) = "" THEN values
                            ELSE ParseTimingLines(values, SplitLines(Head(streams))),
                            Tail(streams))

OpenMCTimingStats(values) ==
    [total_elapsed |-> Get(values, "total_elapsed"),
     initialization |-> Get(values, "initialization"),
     transport |-> Get(values, "transport"),
     calc_rate_inactive |-> Get(values, "calc_rate_inactive"),
     calc_rate_active |-> Get(values, "calc_rate_active"),
     raw |-> values]

\* _parse_openmc_timing handing back a record with nothing in it.
_parse_openmc_timing_empty_record(streams) ==
    Some(OpenMCTimingStats(ParseTimingStreams(EmptyDict, streams)))

\* _parse_openmc_timing(*streams): None when no value was read.
_parse_openmc_timing(streams) ==
    LET values == ParseTimingStreams(EmptyDict, streams)
    IN IF DOMAIN values = {} THEN None ELSE Some(OpenMCTimingStats(values))

\* ------------------------------------------------------------- the state

VARIABLES
    self,                 \* the runner: openmc_exec, time_executable, default_mpi_runner
    _cached_build_info,   \* self._cached_build_info
    os_environ,           \* the parent process environment
    fs,                   \* the directories that exist, each with its files
    pc,                   \* where run_model is: idle, export, probe, launch, finally, done
    args,                 \* the arguments of the call in progress
    workdir_path,         \* run_model's workdir_path
    cleanup,              \* run_model's cleanup
    exported,             \* whether the model's export_to_xml has returned in this call
    env,                  \* run_model's env
    build_info,           \* run_model's build_info
    effective_mpi_procs,  \* run_model's effective_mpi_procs
    command,              \* run_model's command
    spawned,              \* the subprocess.run calls of this call, in order
    outcome,              \* how the call ended: the result returned or the exception raised
    call,                 \* the arguments of a helper called on its own
    ret,                  \* what that helper returned
    created,              \* history: the executable paths an OpenMCBuildInfo was made for
    benchmark             \* the benchmark object of the harness and its setup_cache call

runnerVars == <<self, os_environ, call, ret, created, benchmark>>
localVars == <<workdir_path, cleanup, exported, env, build_info, effective_mpi_procs, command>>
vars == <<self, _cached_build_info, os_environ, fs, pc, args, workdir_path, cleanup,
          exported, env, build_info, effective_mpi_procs, command, spawned, outcome,
          call, ret, created, benchmark>>

\* ---------------------------------------------------------------- inputs

DefaultOpenmcExec == "openmc"
DefaultTimeExecutable == "/usr/bin/time"

\* OpenMCRunner(default_mpi_runner=...): a falsy runner is stored as None.
OpenMCRunner(openmc_exec, time_executable, default_mpi_runner) ==
    [openmc_exec |-> openmc_exec,
     time_executable |-> time_executable,
     default_mpi_runner |-> IF TruthySeq(default_mpi_runner) THEN default_mpi_runner ELSE None]

MpiRunners == {None, Some(<<>>), Some(<<"mpirun">>)}

\* The objects passed as model: an openmc.Model, None, an object with no
\* export_to_xml, and a model whose export_to_xml raises.
Models == {"model", "None", "no_export_to_xml", "export_raises"}

ThreadCounts == {None} \cup {Some(t) : t \in 1..MaxThreads}
ProcCounts == {None} \cup {Some(p) : p \in 0..MaxProcs}
MpiCommands == {None, Some(<<>>), Some(<<"srun", "--ntasks={procs}">>)}
OpenmcArgs == {None, Some(<<"-s", "2">>)}
ExtraEnvs == {None, Some([OMP_NUM_THREADS |-> "8"])}
CallerDir == "/work"
WorkingDirs == {None, Some(CallerDir)}
OpenmcExecs == {None, Some("/opt/openmc/bin/openmc")}
TimeExecutables == {None, Some("/opt/time")}

CallArgs ==
    [model : Models, threads : ThreadCounts, mpi_procs : ProcCounts,
     mpi_command : MpiCommands, openmc_args : OpenmcArgs, extra_env : ExtraEnvs,
     working_dir : WorkingDirs, keep_workdir : BOOLEAN, openmc_exec : OpenmcExecs,
     time_executable : TimeExecutables, capture_output : BOOLEAN]

\* run_model's keyword defaults (lines 101-110), with a model that exports.
DefaultArgs ==
    [model |-> "model", threads |-> None, mpi_procs |-> None, mpi_command |-> None,
     openmc_args |-> None, extra_env |-> None, working_dir |-> None,
     keep_workdir |-> FALSE, openmc_exec |-> None, time_executable |-> None,
     capture_output |-> TRUE]

\* The arguments in which a call differs from DefaultArgs.
Overridden(a) == {k \in DOMAIN DefaultArgs : a[k] # DefaultArgs[k]}

\* What `openmc -v` can do when probed.
ProbeRuns ==
    {ProbeRun(FALSE, 0, ""),
     ProbeRun(TRUE, 1, "OpenMC version 0.15.0\nMPI enabled: yes\n"),
     ProbeRun(TRUE, 0, ""),
     ProbeRun(TRUE, 0, "OpenMC version 0.15.0\nMPI enabled: yes\n"),
     ProbeRun(TRUE, 0, "OpenMC version 0.15.0\nMPI enabled: no\n"),
     ProbeRun(TRUE, 0, "OpenMC version 0.15.0\nCommit hash: 1a2b3c\n")}

\* What the profiled command can do: it cannot be started (the profiler is
\* missing: OSError), or it runs, prints, exits, and the profiler may or may
\* not leave its report.
TargetRun(started, returncode, stdout, stderr, report) ==
    [started |-> started, returncode |-> returncode, stdout |-> stdout,
     stderr |-> stderr, report |-> report]

Stdouts == {"", " Total time elapsed = 1.5 seconds\n"}
Stderrs == {""}
Reports == {None, Some("Maximum resident set size (kbytes): 123456\n")}

TargetRuns ==
    {TargetRun(FALSE, 0, "", "", None)}
    \cup {TargetRun(TRUE, rc, out, err, rep) :
            rc \in 0..MaxExit, out \in Stdouts, err \in Stderrs, rep \in Reports}

\* A line of a `time -v` report.
ReportLine(key, value) == "\t" \o key \o ": " \o value \o "\n"
ElapsedKey == "Elapsed (wall clock) time (h:mm:ss or m:ss)"
UserKey == "User time (seconds)"
SystemKey == "System time (seconds)"
RssKey == "Maximum resident set size (kbytes)"
CpuKey == "Percent of CPU this job got"

\* For each metric: no line, a line that parses, a line that does not.
ElapsedLines == {"", ReportLine(ElapsedKey, "1:02.50"), ReportLine(ElapsedKey, "1:")}
UserLines == {"", ReportLine(UserKey, "0.25"), ReportLine(UserKey, "n/a")}
SystemLines == {"", ReportLine(SystemKey, "0.04"), ReportLine(SystemKey, "")}
RssLines == {"", ReportLine(RssKey, "123456"), ReportLine(RssKey, "12.5")}
CpuLines == {"", ReportLine(CpuKey, "99%"), ReportLine(CpuKey, "?%")}

\* The reports a profiler leaves: whole ones with every choice of lines, and
\* ones cut short while being written.
WholeReports ==
    {Some("\tCommand being timed: openmc\n" \o u \o sy \o c \o e \o r) :
        u \in UserLines, sy \in SystemLines, c \in CpuLines, e \in ElapsedLines,
        r \in RssLines}
PartialReports ==
    {Some(""), Some("\tCommand being timed: openmc"),
     Some("\tUser time (seconds): 0.25\n\tSystem time (sec"),
     Some("\tUser time (seconds): 0.25\n\tSystem time (seconds):"),
     Some("\tUser time (seconds): 0.25\n\tMaximum resident set size (kbytes): 1234")}
ReportTexts == {Val(r) : r \in (WholeReports \cup PartialReports \cup Reports) \ {None}}

\* What a target prints in the runs that look at its output.
TimingLine(text, value, unit) == " " \o text \o " = " \o value \o " " \o unit \o "\n"
PrintedStdouts ==
    {"", " Simulation complete\n",
     TimingLine("Total time for initialization", "1.2e+00", "seconds")
        \o TimingLine("Total time elapsed", "12.34", "seconds")}
PrintedStderrs ==
    {"", " WARNING: no timing\n", TimingLine("Total time elapsed", "99", "seconds")}
PrintingRuns ==
    {TargetRun(FALSE, 0, "", "", None)}
    \cup {TargetRun(TRUE, 0, out, err, None) : out \in PrintedStdouts, err \in PrintedStderrs}

\* The pairs of streams (stdout, stderr) a target leaves in any run.
StreamPairs == {<<r.stdout, r.stderr>> : r \in TargetRuns \cup PrintingRuns}

\* ------------------------------------------------------------ file system

\* A directory: the text of its time-usage.txt, None when there is no such file.
EmptyDir == [report |-> None]
TempDir == "/tmp/openmc-bench-x"

Exists(f, dir) == dir \in DOMAIN f
MkDir(f, dir) == Put(f, dir, EmptyDir)
RmTree(f, dir) == [d \in DOMAIN f \ {dir} |-> f[d]]

\* workdir_path / "time-usage.txt", as a string.
TimeOutput(dir) == dir \o "/" \o "time-usage.txt"

\* ------------------------------------------------------ run_model's steps

\* _prepare_workdir: the path and whether the runner made it (mkdtemp).
_prepare_workdir(working_dir) ==
    IF working_dir # None
    THEN [path |-> Val(working_dir), cleanup |-> FALSE]
    ELSE [path |-> TempDir, cleanup |-> TRUE]

\* _export_model calling export_to_xml without looking for it first.
_export_model_unchecked(model) == IF model = "export_raises" THEN "RuntimeError" ELSE ""

\* _export_model: the exception raised, "" when the model was exported.
_export_model(model) ==
    IF model = "None" THEN "ValueError"
    ELSE IF model = "no_export_to_xml" THEN "TypeError"
    ELSE IF model = "export_raises" THEN "RuntimeError"
    ELSE ""

\* openmc_exec or self.openmc_exec, time_executable or self.time_executable
RunOpenmcExec(runner, a) == Val(OrStr(a.openmc_exec, Some(runner.openmc_exec)))
RunTimeExec(runner, a) == Val(OrStr(a.time_executable, Some(runner.time_executable)))

\* One subprocess.run call: what was to be run, whether the child started,
\* the exit code it left, what it printed and the report it wrote.
Spawn(kind, argv, cwd, childEnv, run) ==
    [kind |-> kind, argv |-> argv, cwd |-> cwd, env |-> childEnv,
     stdout |-> run.stdout, stderr |-> run.stderr, report |-> run.report,
     started |-> run.started,
     returncode |-> IF run.started THEN Some(run.returncode) ELSE None]

\* ParseTimeReport on every report of ReportTexts; TimeReportOf is the same
\* function, the comparison having it worked out once, as a table.
TimeReportTable == [text \in ReportTexts |-> ParseTimeReport(text)]
TimeReportOf == CHOOSE f \in {TimeReportTable} : f = TimeReportTable

\* _parse_time_output on the file time-usage.txt of `dir`: no file gives a
\* TimeUsage with nothing in it (lines 330-331).
_parse_time_output(f, dir) ==
    IF f[dir].report = None THEN TimeUsage(None, None, None, None, None, <<>>)
    ELSE TimeReportOf[Val(f[dir].report)]

\* _parse_openmc_timing on every pair of StreamPairs, as a table likewise.
TimingTable == [streams \in StreamPairs |-> _parse_openmc_timing(streams)]
TimingOfStreams == CHOOSE f \in {TimingTable} : f = TimingTable

\* The timing of a run parsed whether or not its output was captured.
TimingStats_uncaptured(capture_output, stdout, stderr) == TimingOfStreams[<<stdout, stderr>>]

\* run_model's timing_stats (lines 179-183).
TimingStats(capture_output, stdout, stderr) ==
    IF capture_output THEN TimingOfStreams[<<stdout, stderr>>] ELSE None

\* The stream run_model records: "" when output was not captured (lines 187-188).
RecordedStream(capture_output, text) == IF capture_output THEN text ELSE ""

\* A returncode that hides the failure of the child.
RecordedReturncodeSwallowed(run) == 0

\* completed.returncode as run_model records it.
RecordedReturncode(run) == run.returncode

OpenMCRunResult(returncode, stdout, stderr, cmd, workdir, threads, mpi_procs, time_usage, info, timing_stats, requested_mpi_procs) ==
    [returncode |-> returncode, stdout |-> stdout, stderr |-> stderr,
     command |-> cmd, workdir |-> workdir, threads |-> threads,
     mpi_procs |-> mpi_procs, time_usage |-> time_usage, build_info |-> info,
     timing_stats |-> timing_stats,
     requested_mpi_procs |-> requested_mpi_procs]

\* No helper is being called on its own.
NoCall == [fn |-> ""]

\* No benchmark object has been constructed.
NoBenchmark ==
    [thread_options |-> <<>>, mpi_options |-> <<>>, _cache |-> None, pc |-> "unmade",
     todo |-> <<>>, cache |-> <<>>, result |-> None, ran |-> <<>>, calls |-> 0]

\* A new runner (lines 92-95) in a process with one of `parentEnvs`, no call
\* in progress.
InitWith(runners, parentEnvs) ==
    /\ self \in {OpenMCRunner(DefaultOpenmcExec, DefaultTimeExecutable, r) : r \in runners}
    /\ _cached_build_info = None
    /\ os_environ \in parentEnvs
    /\ fs = MkDir(EmptyDict, CallerDir)
    /\ pc = "idle"
    /\ args = DefaultArgs
    /\ workdir_path = ""
    /\ cleanup = FALSE
    /\ exported = FALSE
    /\ env = EmptyDict
    /\ build_info = None
    /\ effective_mpi_procs = None
    /\ command = <<>>
    /\ spawned = <<>>
    /\ outcome = None
    /\ ret = None
    /\ created = {}
    /\ benchmark = NoBenchmark

\* run_model is called with arguments from `calls` (lines 146-149): the
\* working directory is acquired.
CallWith(calls) ==
    /\ pc = "idle"
    /\ \E a \in calls :
        LET w == _prepare_workdir(a.working_dir)
        IN /\ args' = a
           /\ workdir_path' = w.path
           /\ cleanup' = w.cleanup
           /\ fs' = IF w.cleanup THEN MkDir(fs, w.path) ELSE fs
    /\ pc' = "export"
    /\ UNCHANGED <<runnerVars, _cached_build_info, exported, env, build_info,
                   effective_mpi_procs, command, spawned, outcome>>

\* self._export_model(model, workdir_path) (line 152)
ExportModel ==
    /\ pc = "export"
    /\ LET exc == _export_model(args.model)
       IN IF exc # ""
          THEN /\ outcome' = Some(Raise(exc))
               /\ pc' = "finally"
               /\ exported' = exported
          ELSE /\ exported' = TRUE
               /\ pc' = "probe"
               /\ outcome' = outcome
    /\ UNCHANGED <<runnerVars, _cached_build_info, fs, args, workdir_path, cleanup, env,
                   build_info, effective_mpi_procs, command, spawned>>

\* The environment, the build info (probed as `probes` allows), the effective
\* rank count and the command (lines 154-167).
PrepareWith(probes) ==
    /\ pc = "probe"
    /\ LET run_openmc_exec == RunOpenmcExec(self, args)
           e == _build_environment(os_environ, args.threads, args.extra_env)
           hit == CacheHit(self, _cached_build_info, run_openmc_exec)
       IN \E probe \in IF hit THEN {ProbeRun(FALSE, 0, "")} ELSE probes :
            LET got == _get_build_info(self, _cached_build_info, run_openmc_exec, probe)
                eff == _select_mpi_procs(args.mpi_procs, got.info)
                cmd == _build_command(self, run_openmc_exec, args.openmc_args, eff,
                                      args.mpi_command, RunTimeExec(self, args),
                                      TimeOutput(workdir_path))
            IN /\ env' = e
               /\ build_info' = got.info
               /\ _cached_build_info' = got.cache
               /\ created' = IF ~hit /\ got.info # None
                             THEN created \cup {run_openmc_exec} ELSE created
               /\ effective_mpi_procs' = eff
               /\ spawned' = IF hit THEN spawned
                             ELSE Append(spawned, Spawn("probe", <<run_openmc_exec, "-v">>,
                                                        None, e, probe))
               /\ IF Raised(cmd)
                  THEN /\ outcome' = Some(cmd)
                       /\ command' = command
                       /\ pc' = "finally"
                  ELSE /\ command' = Val(cmd.value)
                       /\ outcome' = outcome
                       /\ pc' = "launch"
    /\ os_environ' = ParentAfter_build_environment(os_environ, args.threads, args.extra_env)
    /\ UNCHANGED <<self, call, ret, fs, args, workdir_path, cleanup, exported, benchmark>>

\* A run_model that launches the target again after a nonzero exit.
AfterLaunch_retry(run) == IF run.started /\ run.returncode # 0 THEN "launch" ELSE "finally"

\* A run_model that starts over after the target has run.
AfterLaunch_start_over(run) == "probe"

\* Where run_model goes once subprocess.run has come back or raised: to the
\* finally clause, there being no loop around the call (lines 169-200).
AfterLaunch(run) == "finally"

\* subprocess.run(command, ...) with a child that behaves as `runs` allows, the
\* parsing of what it left and the result (lines 169-197).
LaunchWith(runs) ==
    /\ pc = "launch"
    /\ \E run \in runs :
        /\ spawned' = Append(spawned, Spawn("target", command, Some(workdir_path), env, run))
        /\ IF ~run.started
           THEN /\ outcome' = Some(Raise("OSError"))
                /\ fs' = fs
           ELSE LET after == IF run.report = None THEN fs
                             ELSE [fs EXCEPT ![workdir_path].report = run.report]
                    time_usage == _parse_time_output(after, workdir_path)
                IN /\ fs' = after
                   /\ outcome' = Some(Ok(OpenMCRunResult(
                          RecordedReturncode(run),
                          RecordedStream(args.capture_output, run.stdout),
                          RecordedStream(args.capture_output, run.stderr),
                          command, workdir_path, args.threads, effective_mpi_procs,
                          time_usage, build_info,
                          TimingStats(args.capture_output, run.stdout, run.stderr),
                          args.mpi_procs)))
        /\ pc' = AfterLaunch(run)
    /\ UNCHANGED <<runnerVars, _cached_build_info, args, localVars>>

\* A finally clause that forgets who made the directory.
RemovesWorkdirOfCaller(made, keep_workdir) == ~keep_workdir

\* Whether the finally clause removes the working directory (line 199).
RemovesWorkdir(made, keep_workdir) == made /\ ~keep_workdir

\* finally: shutil.rmtree(workdir_path, ignore_errors=True) (lines 198-200)
Finally ==
    /\ pc = "finally"
    /\ fs' = IF RemovesWorkdir(cleanup, args.keep_workdir) THEN RmTree(fs, workdir_path) ELSE fs
    /\ pc' = "done"
    /\ UNCHANGED <<runnerVars, _cached_build_info, args, localVars, spawned, outcome>>

\* The call is over: its frame is gone, and a temporary directory it kept is
\* the caller's from here on (mkdtemp never hands out the same name again).
ReturnFrame ==
    /\ pc = "done"
    /\ pc' = "idle"
    /\ args' = DefaultArgs
    /\ workdir_path' = ""
    /\ cleanup' = FALSE
    /\ exported' = FALSE
    /\ env' = EmptyDict
    /\ build_info' = None
    /\ effective_mpi_procs' = None
    /\ command' = <<>>
    /\ spawned' = <<>>
    /\ outcome' = None
    /\ fs' = RmTree(fs, TempDir)

\* run_model returns to a caller that only keeps or drops the outcome.
Return == ReturnFrame /\ UNCHANGED <<runnerVars, _cached_build_info>>

\* ------------------------------------------------------ the specifications

\* Most keyword arguments a call overrides at once in Spec.
MaxKw == 3

ParentEnv == [PATH |-> "/usr/bin", OMP_NUM_THREADS |-> "4"]

Init == InitWith(MpiRunners, {ParentEnv}) /\ call = NoCall
Call == CallWith({a \in CallArgs : Cardinality(Overridden(a)) <= MaxKw})
Prepare == PrepareWith(ProbeRuns)
Launch == LaunchWith(TargetRuns)

Next == Call \/ ExportModel \/ Prepare \/ Launch \/ Finally \/ Return

\* Any sequence of run_model calls on one runner, each overriding at most
\* MaxKw arguments.
Spec == Init /\ [][Next]_vars

\* ------------------------------------------- helpers called on their own

machineVars == <<self, _cached_build_info, os_environ, fs, pc, args, workdir_path, cleanup,
                 exported, env, build_info, effective_mpi_procs, command, spawned, outcome,
                 created, benchmark>>

\* The values an 'MPI enabled' entry of a build info is given.
MpiValues == {"", "  ", "yes", " YES ", "True", "1", "no", "0", "on"}
MpiKeys == {"MPI enabled", "MPI Enabled"}
RawMaps == UNION {[keys -> MpiValues] : keys \in SUBSET MpiKeys}
BuildInfos == {None} \cup {Some(OpenMCBuildInfo(None, None, raw)) : raw \in RawMaps}

InitSupportsMpi ==
    /\ InitWith({None}, {ParentEnv})
    /\ call \in [fn : {"_build_supports_mpi"}, build_info : BuildInfos]

Apply_build_supports_mpi ==
    /\ call.fn = "_build_supports_mpi"
    /\ ret = None
    /\ ret' = Some(_build_supports_mpi(call.build_info))
    /\ UNCHANGED <<machineVars, call>>

\* _build_supports_mpi on every build info of BuildInfos.
SpecSupportsMpi == InitSupportsMpi /\ [][Apply_build_supports_mpi]_vars

LauncherRunners == {None, Some(<<"mpirun">>), Some(<<"mpiexec", "--oversubscribe">>)}
LauncherCommands ==
    {None, Some(<<>>), Some(<<"srun", "--ntasks={procs}">>),
     Some(<<"mpiexec", "-n", "{procs}", "--map-by", "ppr:{procs}:node">>),
     Some(<<"aprun">>)}

InitLauncher ==
    /\ InitWith(LauncherRunners, {ParentEnv})
    /\ call \in [fn : {"_resolve_mpi_launcher"},
                 mpi_procs : ProcCounts \cup {Some(-1), Some(MaxProcs + 9)},
                 mpi_command : LauncherCommands]

Apply_resolve_mpi_launcher ==
    /\ call.fn = "_resolve_mpi_launcher"
    /\ ret = None
    /\ ret' = Some(_resolve_mpi_launcher(self, call.mpi_procs, call.mpi_command))
    /\ UNCHANGED <<machineVars, call>>

\* _resolve_mpi_launcher on every runner, rank count and override.
SpecLauncher == InitLauncher /\ [][Apply_resolve_mpi_launcher]_vars

ThreadVars == {"OMP_NUM_THREADS", "OPENMC_THREADS"}
EnvVars == ThreadVars \cup {"PATH"}
\* Parent environments: PATH, and any of the thread-count variables.
ParentEnvs ==
    {[k \in {"PATH"} \cup keys |-> IF k = "PATH" THEN "/usr/bin" ELSE "4"] :
        keys \in SUBSET ThreadVars}
EnvOverrides ==
    {None, Some(EmptyDict)}
    \cup {Some([k \in {key} |-> "8"]) : key \in EnvVars \cup {"OPENMC_CROSS_SECTIONS"}}
    \cup {Some([k \in ThreadVars |-> IF k = "OMP_NUM_THREADS" THEN "8" ELSE "16"])}

InitEnvironment ==
    /\ InitWith({None}, ParentEnvs)
    /\ call \in [fn : {"_build_environment"},
                 threads : ThreadCounts \cup {Some(0), Some(MaxThreads + 9)},
                 extra_env : EnvOverrides]

Apply_build_environment ==
    /\ call.fn = "_build_environment"
    /\ ret = None
    /\ ret' = Some(_build_environment(os_environ, call.threads, call.extra_env))
    /\ os_environ' = ParentAfter_build_environment(os_environ, call.threads, call.extra_env)
    /\ UNCHANGED <<self, _cached_build_info, fs, pc, args, localVars, spawned, outcome, call,
                   created, benchmark>>

\* _build_environment on every parent environment, thread count and override.
SpecEnvironment == InitEnvironment /\ [][Apply_build_environment]_vars

\* The arguments that reach the command, in every combination.
CommandKw == {"mpi_procs", "mpi_command", "openmc_args", "openmc_exec",
              "time_executable", "working_dir"}
QuietRuns == {TargetRun(FALSE, 0, "", "", None), TargetRun(TRUE, 0, "", "", None)}

CallCommand == CallWith({a \in CallArgs : Overridden(a) \subseteq CommandKw})
LaunchQuiet == LaunchWith(QuietRuns)
NextCommand == CallCommand \/ ExportModel \/ Prepare \/ LaunchQuiet \/ Finally \/ Return

\* run_model calls with every combination of the arguments of CommandKw.
SpecCommand == Init /\ [][NextCommand]_vars

\* The arguments that decide what is kept of the output, and where.
CaptureKw == {"capture_output", "working_dir", "keep_workdir"}

CallCapture == CallWith({a \in CallArgs : Overridden(a) \subseteq CaptureKw})
LaunchPrinting == LaunchWith(PrintingRuns)
NextCapture == CallCapture \/ ExportModel \/ Prepare \/ LaunchPrinting \/ Finally \/ Return

\* run_model calls with and without capture_output, on targets that print
\* timing lines, other lines or nothing on either stream.
SpecCapture == Init /\ [][NextCapture]_vars

\* Lines a target prints: one for each pattern, the same with other spacing
\* and other numbers, lines whose number float() rejects, and lines that
\* fall short of a pattern.
TimingReadLines ==
    {" Total time for initialization = 1.2e+00 seconds",
     " Time in transport only        = 3.5 seconds",
     " Total time elapsed  =  12.34 seconds",
     "Total time elapsed=7seconds",
     " Calculation Rate (inactive)  = 1000.5 particles/second",
     " Calculation Rate (active)    = 2E3 particles/second"}
TimingRejectedLines ==
    {" Total time elapsed = 1.2.3 seconds", " Time in transport only = - seconds"}
TimingOtherLines ==
    {"", "   ", " Simulation complete", " Total time elapsed = 12.34 minutes",
     " Total time elapsed: 12.34 seconds", " Total time elapsed = seconds",
     " k Total time elapsed = 1 seconds", " Calculation Rate (active) = 5 seconds"}
TimingLines == TimingReadLines \cup TimingRejectedLines \cup TimingOtherLines
TimingStreams ==
    {<<a \o "\n" \o b \o "\n", err>> :
        a \in TimingLines, b \in TimingLines,
        err \in {"", " Total time elapsed = 99 seconds\n", " Total time elapsed = e seconds"}}

InitTiming ==
    /\ InitWith({None}, {ParentEnv})
    /\ call \in [fn : {"_parse_openmc_timing"}, streams : TimingStreams]

Apply_parse_openmc_timing ==
    /\ call.fn = "_parse_openmc_timing"
    /\ ret = None
    /\ ret' = Some(_parse_openmc_timing(call.streams))
    /\ UNCHANGED <<machineVars, call>>

\* _parse_openmc_timing on every pair of streams of TimingStreams.
SpecTiming == InitTiming /\ [][Apply_parse_openmc_timing]_vars

\* The report files _parse_time_output finds: none, or one of ReportTexts.
ReportFiles == {None} \cup WholeReports \cup PartialReports \cup Reports

InitTimeReport ==
    /\ InitWith({None}, {ParentEnv})
    /\ call \in [fn : {"_parse_time_output"}, report : ReportFiles]

Apply_parse_time_output ==
    /\ call.fn = "_parse_time_output"
    /\ ret = None
    /\ ret' = Some(_parse_time_output([fs EXCEPT ![CallerDir].report = call.report],
                                       CallerDir))
    /\ UNCHANGED <<machineVars, call>>

\* _parse_time_output on a directory with each of ReportFiles.
SpecTimeReport == InitTimeReport /\ [][Apply_parse_time_output]_vars

\* Elapsed times as a profiler writes them: the three forms, with and
\* without a fraction. A fraction is its digits, their value and their number.
Fraction(digits, value, places) == [digits |-> digits, value |-> value, places |-> places]
ElapsedFractions ==
    {Fraction("", 0, 0), Fraction("5", 5, 1), Fraction("00", 0, 2), Fraction("50", 50, 2),
     Fraction("25", 25, 2)}
ElapsedHours == {0, 1, 12}
ElapsedMinutes == {0, 1, 59}
ElapsedSeconds == {0, 2, 5, 59}
ElapsedTimes ==
    [form : {"S"}, hours : {0}, minutes : {0}, seconds : ElapsedSeconds,
     frac : ElapsedFractions]
    \cup [form : {"M:S"}, hours : {0}, minutes : ElapsedMinutes, seconds : ElapsedSeconds,
          frac : ElapsedFractions]
    \cup [form : {"H:M:S"}, hours : ElapsedHours, minutes : ElapsedMinutes,
          seconds : ElapsedSeconds, frac : ElapsedFractions]

\* Two digits, as in mm and ss.
TwoDigits(n) == IF n < 10 THEN "0" \o Str(n) ELSE Str(n)

\* The string of an elapsed time.
ElapsedText(t) ==
    LET frac == IF t.frac.digits = "" THEN "" ELSE "." \o t.frac.digits
    IN IF t.form = "S" THEN Str(t.seconds) \o frac
       ELSE IF t.form = "M:S" THEN Str(t.minutes) \o ":" \o TwoDigits(t.seconds) \o frac
       ELSE Str(t.hours) \o ":" \o TwoDigits(t.minutes) \o ":" \o TwoDigits(t.seconds) \o frac

InitElapsed ==
    /\ InitWith({None}, {ParentEnv})
    /\ call \in {[fn |-> "_parse_elapsed", time |-> t, value |-> ElapsedText(t)] :
                    t \in ElapsedTimes}

Apply_parse_elapsed ==
    /\ call.fn = "_parse_elapsed"
    /\ ret = None
    /\ ret' = Some(_parse_elapsed(Some(call.value)))
    /\ UNCHANGED <<machineVars, call>>

\* _parse_elapsed on every elapsed time of ElapsedTimes.
SpecElapsed == InitElapsed /\ [][Apply_parse_elapsed]_vars

\* Lines of a version banner: the marker line in several shapes, key/value
\* lines, blank lines and lines with neither marker nor colon.
BannerLines ==
    {"", "   ", "OpenMC version 0.15.0", "  OpenMC version 0.14.1  ", "OpenMC version: dev",
     "Commit hash: 1a2b3c", " MPI enabled : yes", "Build type:", "Commit hash: 9f8e7d",
     "Copyright (c) 2011-2024 MIT"}
MaxBanner == 3
Banners == UNION {[1..n -> BannerLines] : n \in 0..MaxBanner}

InitVersion ==
    /\ InitWith({None}, {ParentEnv})
    /\ call \in [fn : {"_parse_openmc_version_output"}, lines : Banners]

Apply_parse_openmc_version_output ==
    /\ call.fn = "_parse_openmc_version_output"
    /\ ret = None
    /\ ret' = Some(_parse_openmc_version_output(call.lines))
    /\ UNCHANGED <<machineVars, call>>

\* _parse_openmc_version_output on every banner of up to MaxBanner lines.
SpecVersion == InitVersion /\ [][Apply_parse_openmc_version_output]_vars

\* ----------------------------------------------------- the benchmark harness

\* Most setup_cache calls made on one benchmark object.
MaxSetupCalls == 3

\* thread_options and mpi_options of a benchmark class: the defaults of
\* config.py without and with MPI, and a single thread count.
ThreadGrids == {<<1>>, <<1, 2>>}
MpiGrids == {<<None>>, <<None, Some(2)>>}

\* __init__: no runner result is cached; no setup_cache call is in progress.
Benchmark(thread_options, mpi_options) ==
    [thread_options |-> thread_options, mpi_options |-> mpi_options, _cache |-> None,
     pc |-> "idle", todo |-> <<>>, cache |-> <<>>, result |-> None, ran |-> <<>>,
     calls |-> 0]

\* for threads in self.thread_options: for mpi_procs in self.mpi_options:
\* the pairs, in the order the loops visit them.
RECURSIVE Grid(_, _)
Grid(thread_options, mpi_options) ==
    IF thread_options = <<>> THEN <<>>
    ELSE [i \in DOMAIN mpi_options |-> <<Head(thread_options), mpi_options[i]>>]
         \o Grid(Tail(thread_options), mpi_options)

\* The keyword arguments _run_model passes to runner.run_model.
HarnessArgs(pair) ==
    [DefaultArgs EXCEPT !.threads = Some(pair[1]), !.mpi_procs = pair[2],
                        !.keep_workdir = TRUE]

\* A _run_model that hands back whatever run_model returned.
_run_model_unchecked(run) == run

\* _run_model: an exception of run_model passes through, a nonzero
\* returncode raises RuntimeError, otherwise the result is returned.
_run_model(run) ==
    IF Raised(run) THEN run
    ELSE IF Val(run.value).returncode # 0 THEN Raise("RuntimeError")
    ELSE run

harnessVars == <<self, _cached_build_info, os_environ, fs, pc, args, workdir_path, cleanup,
                 exported, env, build_info, effective_mpi_procs, command, spawned, outcome,
                 call, ret, created>>

\* A benchmark object is made from a class with one of the grids.
MakeBenchmark ==
    /\ benchmark = NoBenchmark
    /\ \E t \in ThreadGrids, m \in MpiGrids : benchmark' = Benchmark(t, m)
    /\ UNCHANGED harnessVars

\* setup_cache is called: with a cache it returns it at once, without one
\* it starts the loops over the grid with an empty local dict.
SetupCache ==
    /\ benchmark.pc = "idle"
    /\ pc = "idle"
    /\ benchmark.calls < MaxSetupCalls
    /\ benchmark' =
         IF benchmark._cache # None
         THEN [benchmark EXCEPT !.result = Some(Ok(Val(benchmark._cache))),
                                !.ran = <<>>, !.calls = @ + 1]
         ELSE [benchmark EXCEPT !.pc = "loop",
                                !.todo = Grid(benchmark.thread_options, benchmark.mpi_options),
                                !.cache = <<>>, !.result = None, !.ran = <<>>,
                                !.calls = @ + 1]
    /\ UNCHANGED harnessVars

\* The loop body calls runner.run_model for the next pair of the grid.
RunPair ==
    /\ benchmark.pc = "loop"
    /\ benchmark.todo # <<>>
    /\ CallWith({HarnessArgs(Head(benchmark.todo))})

\* run_model is over and _run_model takes its outcome: an exception leaves
\* setup_cache at once; a result is stored under its pair, and after the last
\* pair the local dict becomes self._cache and is returned.
ReturnToHarness ==
    /\ benchmark.pc = "loop"
    /\ ReturnFrame
    /\ LET pair == Head(benchmark.todo)
           got == _run_model(Val(outcome))
           ran == Append(benchmark.ran, pair)
       IN benchmark' =
            IF Raised(got)
            THEN [benchmark EXCEPT !.pc = "idle", !.todo = <<>>, !.cache = <<>>,
                                   !.result = Some(got), !.ran = ran]
            ELSE LET cache == SetItem(benchmark.cache, pair, Val(got.value))
                 IN IF Len(benchmark.todo) = 1
                    THEN [benchmark EXCEPT !.pc = "idle", !.todo = <<>>, !.cache = <<>>,
                                           !._cache = Some(cache),
                                           !.result = Some(Ok(cache)), !.ran = ran]
                    ELSE [benchmark EXCEPT !.todo = Tail(@), !.cache = cache, !.ran = ran]
    /\ UNCHANGED <<self, _cached_build_info, os_environ, call, ret, created>>

NextHarness ==
    \/ MakeBenchmark \/ SetupCache \/ RunPair \/ ExportModel \/ Prepare \/ Launch
    \/ Finally \/ ReturnToHarness

\* Up to MaxSetupCalls setup_cache calls on one benchmark object, whose
\* runner probes and launches as in Spec.
SpecHarness == Init /\ [][NextHarness]_vars

\* ------------------------------------------------------------- properties

\* The call's result is decided: a record returned, or an exception raised.
Returned == outcome # None /\ ~Raised(Val(outcome))
Failed == outcome # None /\ Raised(Val(outcome))
Result == Val(Val(outcome).value)
Exception == Val(outcome).exc

\* Lines 154-167 have run in the call in progress.
Prepared == exported /\ pc \in {"launch", "finally", "done"}

TargetSpawns == SelectSeq(spawned, LAMBDA p : p.kind = "target")

Digits == "0123456789"
\* The decimal string of a natural number.
RECURSIVE Decimal(_)
Decimal(n) ==
    IF n < 10 THEN SubSeq(Digits, n + 1, n + 1)
    ELSE Decimal(n \div 10) \o SubSeq(Digits, (n % 10) + 1, (n % 10) + 1)

\* s with every {procs} replaced by the decimal string of n.
RECURSIVE ReplaceProcs(_, _)
ReplaceProcs(s, n) ==
    IF ~Contains(s, "{procs}") THEN s
    ELSE Before(s, "{procs}") \o Decimal(n) \o ReplaceProcs(After(s, "{procs}"), n)

ArgsOf(a) == IF a.openmc_args = None THEN <<>> ELSE Val(a.openmc_args)
Requested(a) == IF a.mpi_procs = None THEN 0 ELSE Val(a.mpi_procs)
\* An override counts as supplied when it has tokens.
OverrideSupplied(cmd) == cmd # None /\ Len(Val(cmd)) > 0

\* The tokens of a command between the profiler's four and the executable.
LauncherTokens(cmd, a) == SubSeq(cmd, 5, Len(cmd) - 1 - Len(ArgsOf(a)))

\* C1: whenever the profiled command was started, run_model returns a record
\* whose returncode is the exit code the child left, whatever that code is:
\* a nonzero exit neither raises nor changes the code.
ReturncodeIsExitCode ==
    \A i \in DOMAIN spawned :
        (spawned[i].kind = "target" /\ spawned[i].started)
        => (Returned /\ Result.returncode = Val(spawned[i].returncode))

NonzeroExitReturned ==
    /\ pc = "done"
    /\ Returned
    /\ Result.returncode # 0
    /\ Len(TargetSpawns) = 1
    /\ TargetSpawns[1].returncode = Some(Result.returncode)

\* C2: in every result, mpi_procs is absent or at most requested_mpi_procs, and
\* it is absent whenever the requested count is absent or <= 1, or the build
\* info of the run fails the capability check (_build_supports_mpi).
EffectiveProcsBounded ==
    Returned =>
        LET r == Result
        IN /\ \/ r.mpi_procs = None
              \/ /\ r.requested_mpi_procs # None
                 /\ Val(r.mpi_procs) <= Val(r.requested_mpi_procs)
           /\ (\/ r.requested_mpi_procs = None
               \/ Val(r.requested_mpi_procs) <= 1
               \/ ~_build_supports_mpi(r.build_info))
              => r.mpi_procs = None

SerialOnBuildWithoutMpi ==
    /\ pc = "done"
    /\ Returned
    /\ Result.requested_mpi_procs = Some(2)
    /\ Result.build_info # None
    /\ ~_build_supports_mpi(Result.build_info)
    /\ Result.mpi_procs = None

\* The values that stand for an MPI build.
Affirmative(value) == Lower(Strip(value)) \in {"yes", "true", "1"}

\* C3 as stated: _build_supports_mpi is true exactly for an absent build info
\* and for one whose raw map has an 'MPI enabled'-style key with the value
\* yes, true or 1 (trimmed, in any case); a build info without the key, or with
\* an empty value, gives false.
SupportsMpiNeedsKey ==
    ret # None =>
        LET info == call.build_info
        IN Val(ret) <=> \/ info = None
                        \/ \E k \in MpiKeys \cap DOMAIN Val(info).raw :
                               Affirmative(Val(info).raw[k])

\* C3, amended: _build_supports_mpi is true exactly when the build info is
\* absent, or the value it consults ('MPI enabled' when present and not empty,
\* otherwise 'MPI Enabled') is missing, or that value is yes, true or 1
\* (trimmed, in any case).
SupportsMpiUnlessDenied ==
    ret # None =>
        LET info == call.build_info
        IN Val(ret) <=>
             \/ info = None
             \/ LET raw == Val(info).raw
                    first == "MPI enabled" \in DOMAIN raw /\ raw["MPI enabled"] # ""
                IN IF first THEN Affirmative(raw["MPI enabled"])
                   ELSE IF "MPI Enabled" \in DOMAIN raw THEN Affirmative(raw["MPI Enabled"])
                   ELSE TRUE

SupportedWithoutKey ==
    /\ ret = Some(TRUE)
    /\ call.build_info # None
    /\ MpiKeys \cap DOMAIN Val(call.build_info).raw = {}

\* C4: whenever the effective rank count of a run is absent, the command has no
\* launcher tokens: the executable follows the profiler's four tokens, also
\* when an override or a default launcher is configured.
NoLauncherWithoutProcs ==
    /\ (command # <<>> /\ effective_mpi_procs = None)
       => /\ Len(command) = 5 + Len(ArgsOf(args))
          /\ command[5] = RunOpenmcExec(self, args)
    /\ (Returned /\ Result.mpi_procs = None)
       => /\ LauncherTokens(Result.command, args) = <<>>
          /\ Result.command[5] = RunOpenmcExec(self, args)

SerialDespiteOverride ==
    /\ pc = "done"
    /\ Returned
    /\ Requested(args) > 1
    /\ Result.build_info # None
    /\ Result.mpi_procs = None
    /\ OverrideSupplied(args.mpi_command)
    /\ Result.command[5] = RunOpenmcExec(self, args)

\* C5: for a requested count p > 1 and a probe that yields no build info, MPI
\* support is assumed: the effective count is p, and a command that is
\* composed has launcher tokens before the executable.
OptimisticWithoutBuildInfo ==
    (Prepared /\ Requested(args) > 1 /\ build_info = None)
    => /\ effective_mpi_procs = args.mpi_procs
       /\ command # <<>> => /\ LauncherTokens(command, args) # <<>>
                            /\ command[5] # RunOpenmcExec(self, args)
       /\ Returned => Result.mpi_procs = args.mpi_procs

LauncherWithoutBuildInfo ==
    /\ pc = "done"
    /\ Returned
    /\ Result.requested_mpi_procs = Some(2)
    /\ Result.build_info = None
    /\ Result.mpi_procs = Some(2)
    /\ LauncherTokens(Result.command, args) # <<>>

\* The launcher an override stands for: its tokens, {procs} filled in.
Filled(override, n) == [i \in DOMAIN override |-> ReplaceProcs(override[i], n)]

\* C6: for a rank count N that is present (N > 1), _resolve_mpi_launcher takes
\* a supplied override, every {procs} replaced by N, and ignores the default
\* launcher; without an override it takes the default launcher followed by
\* -np and the decimal string of N; with neither it raises ValueError.
LauncherPriority ==
    (ret # None /\ Requested(call) > 1) =>
        LET n == Val(call.mpi_procs)
        IN IF OverrideSupplied(call.mpi_command)
           THEN Val(ret) = Ok(Filled(Val(call.mpi_command), n))
           ELSE IF self.default_mpi_runner # None
           THEN Val(ret) = Ok(Val(self.default_mpi_runner) \o <<"-np", Decimal(n)>>)
           ELSE Val(ret) = Raise("ValueError")

OverrideBeatsDefault ==
    /\ ret # None
    /\ call.mpi_procs = Some(2)
    /\ self.default_mpi_runner # None
    /\ call.mpi_command = Some(<<"srun", "--ntasks={procs}">>)
    /\ Val(ret) = Ok(<<"srun", "--ntasks=2">>)

\* The launcher tokens a composed command is to carry.
ExpectedLauncher ==
    IF effective_mpi_procs = None THEN <<>>
    ELSE IF OverrideSupplied(args.mpi_command)
    THEN Filled(Val(args.mpi_command), Val(effective_mpi_procs))
    ELSE Val(self.default_mpi_runner) \o <<"-np", Decimal(Val(effective_mpi_procs))>>

\* C7: a composed command is the profiler, -v, -o and the report path, then
\* the launcher tokens (if any), then the executable, then the extra
\* arguments in the caller's order; that vector is the one executed and the
\* one recorded in the result.
CommandOrder ==
    /\ command # <<>> =>
          command = <<RunTimeExec(self, args), "-v", "-o", TimeOutput(workdir_path)>>
                    \o ExpectedLauncher
                    \o <<RunOpenmcExec(self, args)>>
                    \o ArgsOf(args)
    /\ \A i \in DOMAIN spawned : spawned[i].kind = "target" => spawned[i].argv = command
    /\ Returned => /\ Result.command = command
                   /\ Len(TargetSpawns) = 1
                   /\ TargetSpawns[1].argv = Result.command

FullCommandRecorded ==
    /\ pc = "done"
    /\ Returned
    /\ args.time_executable # None
    /\ args.openmc_exec # None
    /\ args.openmc_args # None
    /\ args.working_dir # None
    /\ Result.mpi_procs = Some(2)
    /\ Result.command = <<"/opt/time", "-v", "-o", "/work/time-usage.txt", "srun",
                          "--ntasks=2", "/opt/openmc/bin/openmc", "-s", "2">>

\* No launcher can be resolved for the call in progress.
NoLauncher == ~OverrideSupplied(args.mpi_command) /\ self.default_mpi_runner = None

\* C8 as stated: a call that requests more than one rank with no launcher
\* resolvable ends in an error and never launches the target command.
NoLauncherAlwaysFails ==
    (pc = "done" /\ Requested(args) > 1 /\ NoLauncher)
    => (Failed /\ TargetSpawns = <<>>)

\* C8, amended: a call that requests more than one rank with no launcher
\* resolvable, whose model is exported and whose build info passes the
\* capability check, raises ValueError and never launches the target command.
NoLauncherFailsWhenMpiSelected ==
    (Prepared /\ Requested(args) > 1 /\ NoLauncher /\ _build_supports_mpi(build_info))
    => /\ Failed
       /\ Exception = "ValueError"
       /\ TargetSpawns = <<>>
       /\ command = <<>>

ConfigurationErrorRaised ==
    /\ pc = "done"
    /\ Prepared
    /\ args.mpi_procs = Some(2)
    /\ NoLauncher
    /\ Failed
    /\ Exception = "ValueError"
    /\ Len(spawned) = 1
    /\ spawned[1].kind = "probe"

\* C9: when a call has ended, on any path, its working directory is gone
\* exactly when the runner made it (no working_dir given) and keep_workdir is
\* false; a caller's directory is never removed.
WorkdirRemovedIffOwnedAndNotKept ==
    /\ pc = "done" =>
          (~Exists(fs, workdir_path) <=> (args.working_dir = None /\ ~args.keep_workdir))
    /\ Exists(fs, CallerDir)

TempDirRemovedAfterError ==
    /\ pc = "done"
    /\ Failed
    /\ args.working_dir = None
    /\ ~args.keep_workdir
    /\ ~Exists(fs, workdir_path)

\* C10 as stated: for threads t >= 1 the environment returned has both
\* OMP_NUM_THREADS and OPENMC_THREADS equal to the decimal string of t; for
\* threads absent it has neither variable.
ThreadVarsFollowThreadsOnly ==
    ret # None =>
        LET e == Val(ret)
        IN IF call.threads = None THEN ThreadVars \cap DOMAIN e = {}
           ELSE Val(call.threads) >= 1 =>
                  \A v \in ThreadVars : v \in DOMAIN e /\ e[v] = Decimal(Val(call.threads))

\* C10, amended: a thread-count variable that extra_env supplies has extra_env's
\* value; otherwise, for threads t >= 1 it is the decimal string of t, and for
\* threads absent it is present exactly when the parent environment has it,
\* with the parent's value.
ThreadVarsFollowThreadsUnlessOverridden ==
    ret # None =>
        LET e == Val(ret)
            extra == IF call.extra_env = None THEN EmptyDict ELSE Val(call.extra_env)
        IN \A v \in ThreadVars :
             IF v \in DOMAIN extra THEN v \in DOMAIN e /\ e[v] = extra[v]
             ELSE IF call.threads = None
             THEN /\ v \in DOMAIN e <=> v \in DOMAIN os_environ
                  /\ v \in DOMAIN e => e[v] = os_environ[v]
             ELSE Val(call.threads) >= 1 =>
                    v \in DOMAIN e /\ e[v] = Decimal(Val(call.threads))

InheritedThreadVarKept ==
    /\ ret # None
    /\ call.threads = None
    /\ call.extra_env = None
    /\ "OMP_NUM_THREADS" \in DOMAIN os_environ
    /\ "OMP_NUM_THREADS" \in DOMAIN Val(ret)
    /\ Val(ret)["OMP_NUM_THREADS"] = "4"

\* The variables _build_environment sets from threads.
SetFromThreads(threads) == IF threads = None THEN {} ELSE ThreadVars

\* C11: in the environment _build_environment returns, every key of extra_env
\* has extra_env's value, whatever the parent environment and the thread count
\* say; every key that neither extra_env nor the thread count sets is present
\* exactly when the parent has it, with the parent's value; and the call
\* leaves the parent environment as it was.
ExtraEnvOverridesAll ==
    /\ [](ret # None =>
            LET e == Val(ret)
                extra == IF call.extra_env = None THEN EmptyDict ELSE Val(call.extra_env)
            IN /\ \A k \in DOMAIN extra : k \in DOMAIN e /\ e[k] = extra[k]
               /\ \A k \in (DOMAIN e \cup DOMAIN os_environ)
                            \ (DOMAIN extra \cup SetFromThreads(call.threads)) :
                     k \in DOMAIN e /\ k \in DOMAIN os_environ /\ e[k] = os_environ[k])
    /\ [][os_environ' = os_environ]_vars

ExtraEnvBeatsThreadsAndParent ==
    /\ ret # None
    /\ call.threads = Some(2)
    /\ call.extra_env = Some([k \in {"OMP_NUM_THREADS"} |-> "8"])
    /\ os_environ = [PATH |-> "/usr/bin", OMP_NUM_THREADS |-> "4"]
    /\ Val(ret) = [PATH |-> "/usr/bin", OMP_NUM_THREADS |-> "8", OPENMC_THREADS |-> "2"]

\* Lines 156-167 run in this step.
PrepareStep == pc = "probe" /\ pc' # "probe"

\* This step ran `openmc_exec -v`: the child it spawned.
ProbedInStep == Len(spawned') = Len(spawned) + 1 /\ spawned'[Len(spawned')].kind = "probe"
StepProbe == spawned'[Len(spawned')]

\* This step made an OpenMCBuildInfo for the executable path p.
CreatesBuildInfo(p) ==
    /\ PrepareStep
    /\ ProbedInStep
    /\ StepProbe.argv = <<p, "-v">>
    /\ build_info' # None

OverriddenPath == RunOpenmcExec(self, args) # self.openmc_exec

\* C12: a call whose executable path differs from the runner's default path
\* always probes that path, takes the build info from that probe and not from
\* the cache, and leaves the runner's cached build info as it was.
OverriddenPathBypassesCache ==
    [][(PrepareStep /\ OverriddenPath) =>
          /\ ProbedInStep
          /\ StepProbe.argv = <<RunOpenmcExec(self, args), "-v">>
          /\ build_info' = _fetch_build_info(
                 ProbeRun(StepProbe.started,
                          IF StepProbe.started THEN Val(StepProbe.returncode) ELSE 0,
                          StepProbe.stdout))
          /\ _cached_build_info' = _cached_build_info]_vars

FailedProbeBesideFullCache ==
    /\ pc = "launch"
    /\ OverriddenPath
    /\ _cached_build_info # None
    /\ build_info = None
    /\ Len(spawned) = 1
    /\ spawned[1].kind = "probe"

\* C13 as stated: over any sequence of calls on one runner, an OpenMCBuildInfo
\* is made at most once for each executable path.
BuildInfoOncePerPath ==
    [][\A p \in created' : CreatesBuildInfo(p) => p \notin created]_vars

\* C13, amended: an OpenMCBuildInfo is made at most once for the runner's
\* default executable path; a path that differs from the default is probed on
\* every call that reaches the probe, whatever was made for it before.
BuildInfoOnceForDefaultPath ==
    [][/\ CreatesBuildInfo(self.openmc_exec) => self.openmc_exec \notin created
       /\ (PrepareStep /\ OverriddenPath) => ProbedInStep]_vars

DefaultPathAnsweredFromCache ==
    /\ pc = "launch"
    /\ ~OverriddenPath
    /\ created = {self.openmc_exec, "/opt/openmc/bin/openmc"}
    /\ spawned = <<>>
    /\ build_info # None

\* C14: once the cache holds a build info no step changes it, and every call
\* on the default executable path gets that build info without a probe.
CacheReadOnlyOncePopulated ==
    [][_cached_build_info # None =>
          /\ _cached_build_info' = _cached_build_info
          /\ (PrepareStep /\ ~OverriddenPath) =>
                (build_info' = _cached_build_info /\ spawned' = spawned)]_vars

CachedInfoReturnedUnprobed ==
    /\ pc = "done"
    /\ Returned
    /\ ~OverriddenPath
    /\ args.threads # None
    /\ Len(spawned) = 1
    /\ spawned[1].kind = "target"
    /\ _cached_build_info # None
    /\ Result.build_info = _cached_build_info

\* The probe of the call in progress could not be started or exited nonzero.
ProbeFailed ==
    \E i \in DOMAIN spawned :
        /\ spawned[i].kind = "probe"
        /\ (~spawned[i].started \/ Val(spawned[i].returncode) # 0)

\* C15: when the probe cannot be started or exits nonzero, the build info of
\* the call is absent and the probe raises nothing: the call goes on to launch
\* the target command and returns a result whose build_info is absent. The
\* only calls that end otherwise are those stopped by something other than
\* the probe: no launcher for a request of several ranks (ValueError), or a
\* profiler that cannot be started (OSError, after the launch was attempted).
ProbeFailureIsSoft ==
    ProbeFailed =>
        /\ build_info = None
        /\ pc = "done" =>
              \/ /\ Returned
                 /\ Result.build_info = None
                 /\ Len(TargetSpawns) = 1
              \/ /\ Failed
                 /\ Exception = "ValueError"
                 /\ Requested(args) > 1
                 /\ NoLauncher
              \/ /\ Failed
                 /\ Exception = "OSError"
                 /\ Len(TargetSpawns) = 1
                 /\ ~TargetSpawns[1].started

ResultAfterFailedProbe ==
    /\ pc = "done"
    /\ Returned
    /\ Len(spawned) = 2
    /\ spawned[1].kind = "probe"
    /\ spawned[1].started
    /\ spawned[1].returncode = Some(1)
    /\ spawned[2].kind = "target"
    /\ spawned[2].started
    /\ Result.build_info = None

\* The models with no callable export_to_xml, None among them.
CannotExport == {"None", "no_export_to_xml"}

\* The call was stopped before anything was serialized, probed or launched,
\* with its working directory acquired.
StoppedBeforeExport ==
    /\ Failed
    /\ ~exported
    /\ spawned = <<>>
    /\ command = <<>>
    /\ build_info = None
    /\ workdir_path # ""
    /\ pc = "finally" => Exists(fs, workdir_path)

\* C16 as stated: for every model with no callable export_to_xml, None
\* included, run_model fails with a type error, after the working directory
\* is acquired and before anything is serialized, probed or spawned.
UnexportableModelIsTypeError ==
    (args.model \in CannotExport /\ pc \in {"finally", "done"})
    => (StoppedBeforeExport /\ Exception = "TypeError")

\* C16, amended: a None model fails with ValueError and any other model with
\* no callable export_to_xml with TypeError, in both cases after the working
\* directory is acquired and before anything is serialized, probed or spawned.
UnexportableModelIsRejected ==
    (args.model \in CannotExport /\ pc \in {"finally", "done"})
    => /\ StoppedBeforeExport
       /\ Exception = IF args.model = "None" THEN "ValueError" ELSE "TypeError"

TypeErrorBeforeExport ==
    /\ pc = "finally"
    /\ args.model = "no_export_to_xml"
    /\ Failed
    /\ Exception = "TypeError"
    /\ cleanup
    /\ Exists(fs, workdir_path)
    /\ spawned = <<>>

\* C17: a run with capture_output false has timing_stats absent and stdout
\* and stderr empty in its result, whatever the target printed; with
\* capture_output true the result's stdout and stderr are the streams of the
\* target and timing_stats is the parse of exactly those two streams.
TimingOnlyWhenCaptured ==
    (pc \in {"finally", "done"} /\ Len(TargetSpawns) = 1 /\ TargetSpawns[1].started)
    => /\ Returned
       /\ IF args.capture_output
          THEN /\ Result.stdout = TargetSpawns[1].stdout
               /\ Result.stderr = TargetSpawns[1].stderr
               /\ Result.timing_stats
                    = _parse_openmc_timing(<<TargetSpawns[1].stdout, TargetSpawns[1].stderr>>)
          ELSE /\ Result.stdout = ""
               /\ Result.stderr = ""
               /\ Result.timing_stats = None

UncapturedTimingLinesDropped ==
    /\ pc = "done"
    /\ ~args.capture_output
    /\ Len(TargetSpawns) = 1
    /\ Contains(TargetSpawns[1].stdout, "Total time elapsed = 12.34 seconds")
    /\ Contains(TargetSpawns[1].stderr, "Total time elapsed = 99 seconds")
    /\ Returned
    /\ Result.timing_stats = None
    /\ Result.stdout = ""
    /\ Result.stderr = ""

\* Every character of s is in the set cs.
AllIn(s, cs) == \A i \in 1..Len(s) : SubSeq(s, i, i) \in cs
NumberChars == {SubSeq(NumberClass, i, i) : i \in 1..Len(NumberClass)}

\* The numbers n for which line is text, white space, "=", white space, n,
\* white space, unit, n being one or more characters of [0-9.eE+-].
NumbersMatched(pattern, line) ==
    LET from == Len(pattern.text) + 1
        to == Len(line) - Len(pattern.unit)
        mid == SubSeq(line, from, to)
    IN IF ~(/\ from <= to
            /\ SubSeq(line, 1, from - 1) = pattern.text
            /\ SubSeq(line, to + 1, Len(line)) = pattern.unit)
       THEN {}
       ELSE {SubSeq(mid, b[1], b[2]) :
                b \in {c \in (1..Len(mid)) \X (1..Len(mid)) :
                         /\ c[1] <= c[2]
                         /\ AllIn(SubSeq(mid, c[1], c[2]), NumberChars)
                         /\ AllIn(SubSeq(mid, c[2] + 1, Len(mid)), Whitespace)
                         /\ \E i \in 1..(c[1] - 1) :
                                /\ SubSeq(mid, i, i) = "="
                                /\ AllIn(SubSeq(mid, 1, i - 1), Whitespace)
                                /\ AllIn(SubSeq(mid, i + 1, c[1] - 1), Whitespace)}}

\* The lines of the streams of the call, stripped.
LinesOfCall ==
    {Strip(SplitLines(call.streams[i])[j]) :
        i \in {1}, j \in DOMAIN SplitLines(call.streams[1])}
    \cup {Strip(SplitLines(call.streams[i])[j]) :
        i \in {2}, j \in DOMAIN SplitLines(call.streams[2])}

\* Some line of the call matches the pattern of key; and some line matches
\* it with a number float() takes.
LineMatched(key) == \E line \in LinesOfCall : NumbersMatched(_TIMING_REGEX[key], line) # {}
LineRead(key) ==
    \E line \in LinesOfCall :
        \E n \in NumbersMatched(_TIMING_REGEX[key], line) : ParseFloat(n) # None

TimingFields == {TimingKeys[i] : i \in DOMAIN TimingKeys}
TimingParsed == call.fn = "_parse_openmc_timing" /\ ret # None

\* C18 as stated: _parse_openmc_timing returns absent exactly when no line of
\* any stream matches any of the five patterns, and otherwise a record in
\* which a field is present exactly when some line matched its pattern.
TimingFieldIffLineMatched ==
    TimingParsed
    => IF \A key \in TimingFields : ~LineMatched(key)
       THEN Val(ret) = None
       ELSE /\ Val(ret) # None
            /\ \A key \in TimingFields : (Val(Val(ret))[key] # None) <=> LineMatched(key)

\* C18, amended: _parse_openmc_timing returns absent (not an empty record)
\* exactly when no line of any stream matches a pattern with a number that
\* float() accepts, and otherwise a record in which a field is present
\* exactly when some line matched its pattern with such a number; all other
\* lines are skipped without error.
TimingFieldIffLineRead ==
    TimingParsed
    => IF \A key \in TimingFields : ~LineRead(key)
       THEN Val(ret) = None
       ELSE /\ Val(ret) # None
            /\ Val(Val(ret)).raw # EmptyDict
            /\ \A key \in TimingFields : (Val(Val(ret))[key] # None) <=> LineRead(key)

ElapsedOnlyRecord ==
    /\ TimingParsed
    /\ call.streams = <<" Total time elapsed  =  12.34 seconds\n Simulation complete\n", "">>
    /\ Val(ret) # None
    /\ Val(Val(ret)).total_elapsed = Some(Float(1234, -2))
    /\ \A key \in TimingFields \ {"total_elapsed"} : Val(Val(ret))[key] = None

\* The report has the line `key: value`, with or without the leading tab,
\* as a whole line.
HasReportLine(text, key, value) ==
    \/ Contains("\n" \o text \o "\n", "\n\t" \o key \o ": " \o value \o "\n")
    \/ Contains("\n" \o text \o "\n", "\n" \o key \o ": " \o value \o "\n")

\* What each metric is when the report has a line of it that can be read:
\* the field, the key of the line, the value as written and as parsed.
Reading(field, key, written, parsed) ==
    [field |-> field, key |-> key, written |-> written, parsed |-> parsed]
Readings ==
    {Reading("elapsed_seconds", ElapsedKey, "1:02.50", Float(625, -1)),
     Reading("user_seconds", UserKey, "0.25", Float(25, -2)),
     Reading("system_seconds", SystemKey, "0.04", Float(4, -2)),
     Reading("max_rss_kb", RssKey, "123456", 123456),
     Reading("max_rss_kb", RssKey, "1234", 1234),
     Reading("cpu_percent", CpuKey, "99%", Float(99, 0))}
TimeUsageFields == {r.field : r \in Readings}

\* The field as its own line, and no other, decides it.
FieldByOwnLine(text, field) ==
    LET read == {r \in Readings : r.field = field /\ HasReportLine(text, r.key, r.written)}
    IN IF read = {} THEN None ELSE Some((CHOOSE r \in read : TRUE).parsed)

\* C19: _parse_time_output does not raise for a missing or partly written
\* report: with no report file every field of the TimeUsage is absent, and
\* with a report each of the five metrics is read on its own, so that a
\* missing or unreadable value leaves that one field absent and the others
\* with their parsed values.
MetricsParsedIndependently ==
    (call.fn = "_parse_time_output" /\ ret # None)
    => IF call.report = None
       THEN Val(ret) = TimeUsage(None, None, None, None, None, <<>>)
       ELSE \A field \in TimeUsageFields :
                Val(ret)[field] = FieldByOwnLine(Val(call.report), field)

UnreadableMetricsBesideReadOnes ==
    /\ call.fn = "_parse_time_output"
    /\ ret # None
    /\ call.report = Some("\tCommand being timed: openmc\n" \o ReportLine(UserKey, "0.25")
                            \o ReportLine(SystemKey, "") \o ReportLine(CpuKey, "?%")
                            \o ReportLine(ElapsedKey, "1:") \o ReportLine(RssKey, "123456"))
    /\ Val(ret).user_seconds = Some(Float(25, -2))
    /\ Val(ret).max_rss_kb = Some(123456)
    /\ Val(ret).system_seconds = None
    /\ Val(ret).cpu_percent = None
    /\ Val(ret).elapsed_seconds = None

\* H*3600 + M*60 + S.frac of an elapsed time, in seconds.
TotalSeconds(t) ==
    Float((t.hours * 3600 + t.minutes * 60 + t.seconds) * Pow10(t.frac.places) + t.frac.value,
          0 - t.frac.places)

ElapsedParsed == call.fn = "_parse_elapsed" /\ ret # None

\* C20 as stated: _parse_elapsed turns every string of the form
\* [[H:]M:]S[.frac], seconds only, minutes:seconds or hours:minutes:seconds,
\* into H*3600 + M*60 + S seconds.
ElapsedIsTotalSeconds ==
    ElapsedParsed => Val(ret) = Some(TotalSeconds(call.time))

\* C20, amended: _parse_elapsed turns every string of the form M:S[.frac] or
\* H:M:S[.frac] into H*3600 + M*60 + S seconds; a string of seconds only,
\* with no colon, gives absent.
ElapsedWithColonIsTotalSeconds ==
    ElapsedParsed
    => Val(ret) = IF call.time.form = "S" THEN None ELSE Some(TotalSeconds(call.time))

MinutesAndSecondsAdded ==
    /\ ElapsedParsed
    /\ call.value = "1:02.50"
    /\ Val(ret) = Some(Float(625, -1))

VersionMarker == "OpenMC version"
VersionParsed == call.fn = "_parse_openmc_version_output" /\ ret # None

\* The lines of the banner that start, once trimmed, with the marker, and
\* the other non-empty lines that hold a colon.
MarkerLines == {i \in DOMAIN call.lines : StartsWith(Strip(call.lines[i]), VersionMarker)}
ColonLines ==
    {i \in DOMAIN call.lines \ MarkerLines : Contains(Strip(call.lines[i]), ":")}
KeyOfLine(i) == Strip(Before(Strip(call.lines[i]), ":"))
ValueOfLine(i) == Strip(After(Strip(call.lines[i]), ":"))
VersionOfLine(i) == Strip(After(Strip(call.lines[i]), VersionMarker))

\* C21 as stated: the version is the trimmed text after the marker of the
\* first line that starts with the marker, whatever lines follow it; every
\* other non-empty line with a colon gives one trimmed key/value pair of the
\* raw map, and the map holds nothing else.
VersionFromFirstMarkerLine ==
    VersionParsed
    => /\ IF MarkerLines = {} THEN VersionMarker \notin DOMAIN Val(ret)
          ELSE Get(Val(ret), VersionMarker)
                 = Some(VersionOfLine(CHOOSE i \in MarkerLines : \A j \in MarkerLines : i <= j))
       /\ \A i \in ColonLines :
              /\ KeyOfLine(i) \in DOMAIN Val(ret)
              /\ \E j \in ColonLines :
                    KeyOfLine(j) = KeyOfLine(i) /\ Val(ret)[KeyOfLine(i)] = ValueOfLine(j)
       /\ DOMAIN Val(ret) \ {VersionMarker} = {KeyOfLine(i) : i \in ColonLines}

\* The same with the last line that starts with the marker in place of the
\* first: what the loop's assignment does when the marker comes twice.
VersionFromLastMarkerLine ==
    VersionParsed
    => /\ IF MarkerLines = {} THEN VersionMarker \notin DOMAIN Val(ret)
          ELSE Get(Val(ret), VersionMarker)
                 = Some(VersionOfLine(CHOOSE i \in MarkerLines : \A j \in MarkerLines : i >= j))
       /\ \A i \in ColonLines :
              /\ KeyOfLine(i) \in DOMAIN Val(ret)
              /\ \E j \in ColonLines :
                    KeyOfLine(j) = KeyOfLine(i) /\ Val(ret)[KeyOfLine(i)] = ValueOfLine(j)
       /\ DOMAIN Val(ret) \ {VersionMarker} = {KeyOfLine(i) : i \in ColonLines}

LaterMarkerLineWins ==
    /\ VersionParsed
    /\ call.lines = <<"OpenMC version 0.15.0", "Commit hash: 1a2b3c", "OpenMC version: dev">>
    /\ Val(ret) = [k \in {VersionMarker, "Commit hash"} |->
                     IF k = VersionMarker THEN ": dev" ELSE "1a2b3c"]

\* The errors the spec calls configuration errors: a model that cannot be
\* serialized, and a parallel run with no launcher.
ConfigurationErrors == {"ValueError", "TypeError"}

\* C22 as stated: a call launches the target at most once, also after a
\* nonzero exit, only after the model was serialized, and exactly once when
\* no configuration error is raised.
LaunchedOnceUnlessConfigurationError ==
    /\ Len(TargetSpawns) <= 1
    /\ Len(TargetSpawns) = 1 => exported
    /\ (pc = "done" /\ ~(Failed /\ Exception \in ConfigurationErrors))
       => Len(TargetSpawns) = 1

\* C22, amended: a call launches the target at most once, also after a
\* nonzero exit, only after the model was serialized, and exactly once when
\* no error is raised before the launch: a configuration error, an exception
\* of export_to_xml itself, or a launcher template that cannot be formatted.
LaunchedOnceUnlessStoppedBefore ==
    /\ Len(TargetSpawns) <= 1
    /\ Len(TargetSpawns) = 1 => exported
    /\ pc = "done"
       => (Len(TargetSpawns) = 1 <=> (Returned \/ Exception = "OSError"))
    /\ (pc = "done" /\ Len(TargetSpawns) = 0)
       => Exception \in ConfigurationErrors \cup {"RuntimeError", "KeyError"}

NoRelaunchAfterNonzeroExit ==
    /\ pc = "done"
    /\ Returned
    /\ Result.returncode # 0
    /\ exported
    /\ Len(TargetSpawns) = 1
    /\ TargetSpawns[1].argv = command

ProbeSpawns == SelectSeq(spawned, LAMBDA p : p.kind = "probe")
ChildrenStarted == SelectSeq(spawned, LAMBDA p : p.started)

\* C23 as stated: no call starts more than one child process, the version
\* probe and the profiled target counted together.
OneChildPerCall == Len(ChildrenStarted) <= 1

\* C23, amended: a call makes at most two blocking subprocess calls, one
\* after the other, and so starts at most two child processes: the version
\* probe, at most once, and then the profiled target, at most once.
ProbeThenTargetPerCall ==
    /\ Len(ProbeSpawns) <= 1
    /\ Len(TargetSpawns) <= 1
    /\ Len(spawned) = Len(ProbeSpawns) + Len(TargetSpawns)
    /\ Len(spawned) = 2 => (spawned[1].kind = "probe" /\ spawned[2].kind = "target")

ProbeAndTargetStarted ==
    /\ pc = "done"
    /\ Returned
    /\ Len(ChildrenStarted) = 2
    /\ ChildrenStarted[1].kind = "probe"
    /\ ChildrenStarted[1].argv = <<RunOpenmcExec(self, args), "-v">>
    /\ ChildrenStarted[2].kind = "target"

\* C24: a probe of the default executable that yields absent is not
\* remembered. The cache is empty exactly as long as no probe of the default
\* path has succeeded on the runner, and while it is empty every call on the
\* default path that gets to the build info runs the probe again; what the
\* probe yields is the call's build info and, when it is the first to
\* succeed, the content of the cache.
FailedProbeNotRemembered ==
    /\ [](_cached_build_info = None <=> self.openmc_exec \notin created)
    /\ [][(PrepareStep /\ ~OverriddenPath /\ _cached_build_info = None) =>
            /\ ProbedInStep
            /\ StepProbe.argv = <<self.openmc_exec, "-v">>
            /\ build_info' = _fetch_build_info(
                   ProbeRun(StepProbe.started,
                            IF StepProbe.started THEN Val(StepProbe.returncode) ELSE 0,
                            StepProbe.stdout))
            /\ _cached_build_info' = build_info']_vars

ProbedAgainAfterFailure ==
    /\ pc = "done"
    /\ ~OverriddenPath
    /\ args.working_dir = None
    /\ fs[CallerDir].report # None
    /\ created = {}
    /\ Len(ProbeSpawns) = 1
    /\ ProbeSpawns[1].returncode = Some(1)
    /\ build_info = None
    /\ _cached_build_info = None
    /\ Returned

\* C25 as stated: in any sequence of calls, also ones that use the same
\* working_dir again, the TimeUsage of a result comes from the report the
\* profiler wrote in that call alone: every field is absent when it wrote
\* none, whatever an earlier call left in time-usage.txt.
TimeUsageFromOwnReport ==
    (Returned /\ Len(TargetSpawns) = 1)
    => Result.time_usage
         = IF TargetSpawns[1].report = None
           THEN TimeUsage(None, None, None, None, None, <<>>)
           ELSE ParseTimeReport(Val(TargetSpawns[1].report))

\* What holds: the TimeUsage is read from whatever time-usage.txt holds when
\* the target has run, and that is this call's report only if one was
\* written or the directory is a new one.
TimeUsageFromFileInWorkdir ==
    (Returned /\ Len(TargetSpawns) = 1 /\ pc = "finally")
    => /\ Result.time_usage = _parse_time_output(fs, workdir_path)
       /\ (TargetSpawns[1].report # None \/ cleanup)
          => fs[workdir_path].report = TargetSpawns[1].report

StaleReportInResult ==
    /\ pc = "done"
    /\ Returned
    /\ args.working_dir = Some(CallerDir)
    /\ Len(TargetSpawns) = 1
    /\ TargetSpawns[1].started
    /\ TargetSpawns[1].report = None
    /\ Result.time_usage.max_rss_kb = Some(123456)

\* The grid of the benchmark object, and the step in which run_model's
\* outcome goes back to setup_cache.
BenchmarkGrid == Grid(benchmark.thread_options, benchmark.mpi_options)
HarnessTakesOutcome == benchmark.pc = "loop" /\ pc = "done"

\* C26: the cache is populated only by a setup_cache call that has run every
\* pair of the grid exactly once, in loop order, each with exit code 0:
\* a populated cache holds one result per pair, for that pair's thread and
\* rank counts and with returncode 0; a run that exits nonzero makes
\* setup_cache raise RuntimeError, and a setup_cache that raised left no
\* cache; once there is a cache it never changes, no run_model call is
\* started, and every later setup_cache call returns that same mapping.
CachePopulatedOnlyByWholeGrid ==
    /\ [](benchmark._cache # None =>
            LET cache == Val(benchmark._cache)
            IN /\ Len(cache) = Len(BenchmarkGrid)
               /\ \A i \in DOMAIN cache :
                    /\ cache[i].key = BenchmarkGrid[i]
                    /\ cache[i].value.returncode = 0
                    /\ cache[i].value.threads = Some(BenchmarkGrid[i][1])
                    /\ cache[i].value.requested_mpi_procs = BenchmarkGrid[i][2])
    /\ []((benchmark.result # None /\ Raised(Val(benchmark.result)))
            => benchmark._cache = None)
    /\ [][(benchmark._cache = None /\ benchmark'._cache # None)
            => /\ benchmark'.ran = BenchmarkGrid
               /\ benchmark'.result = Some(Ok(Val(benchmark'._cache)))]_vars
    /\ [][(HarnessTakesOutcome /\ Returned /\ Result.returncode # 0)
            => /\ benchmark'.result = Some(Raise("RuntimeError"))
               /\ benchmark'._cache = None
               /\ benchmark'.pc = "idle"]_vars
    /\ [][benchmark._cache # None
            => /\ benchmark'._cache = benchmark._cache
               /\ pc' = "idle"
               /\ benchmark'.pc = "idle"
               /\ spawned' = <<>>
               /\ benchmark'.calls # benchmark.calls
                    => /\ benchmark'.result = Some(Ok(Val(benchmark._cache)))
                       /\ benchmark'.ran = <<>>]_vars

\* A cache over the four pairs of the largest grid, returned once more by a
\* later setup_cache call that ran nothing.
CacheReturnedByLaterCall ==
    /\ benchmark._cache # None
    /\ Len(Val(benchmark._cache)) = 4
    /\ benchmark.calls = MaxSetupCalls
    /\ benchmark.ran = <<>>
    /\ benchmark.result = Some(Ok(Val(benchmark._cache)))

\* setup_cache raised RuntimeError at the third pair of the grid: the cache
\* is unpopulated though two runs exited with 0.
RuntimeErrorLeavesNoCache ==
    /\ benchmark.pc = "idle"
    /\ benchmark.result = Some(Raise("RuntimeError"))
    /\ Len(benchmark.ran) = 3
    /\ benchmark._cache = None

====
